---- MODULE Spec2Model ----
(***************************************************************************)
(* A model of the request-dispatch core of caf: the route registry and     *)
(* matcher (api.ts), the streaming response object (response.ts), the      *)
(* error interceptor (error.ts), CORS negotiation (cors.ts) and the route  *)
(* definition helpers of App and Router (app.ts, router.ts).               *)
(*                                                                         *)
(* Strings the code inspects character by character (paths, chunks) are    *)
(* sequences of one-character strings; strings it only passes around       *)
(* (method names, header values) are TLA+ strings.                         *)
(***************************************************************************)
EXTENDS Integers, Sequences, FiniteSets, TLC

VARIABLES
    routes,        \* API.routes: the set of registered "METHOD path" keys
    static,        \* API.static: route key -> handler
    dynamic,       \* API.dynamic: method -> sequence of compiled dynamic routes
    fallbackRoute, \* API.fallbackRoute: handler or undefined
    registered,    \* history: the successful addEndpoint calls, in call order
    routerRoutes,  \* Router.routes: the Route records pushed so far
    corsConf,      \* app.conf.cors
    req,           \* the request last handed to API.trigger
    invoked,       \* the handler API.trigger called for it, or undefined
    params,        \* the params object handed to that handler
    res,           \* the CafResponse of that request
    log,           \* the log entries emitted for that request, in order
    last,          \* the last call made on the API / response and what it threw
    nCalls,        \* number of calls made on the current response by user code
    app,           \* the App: state, conf.port, _server, and how often the
                   \* hooks ran and a listener was opened (history)
    calls,         \* history: the start()/stop() calls made, each with the
                   \* await it is at and how its promise settled
    exchanges      \* the requests the listener handed to API.trigger: each
                   \* with its response, its handler and what the transport
                   \* was given to respond with

vars == <<routes, static, dynamic, fallbackRoute, registered, routerRoutes,
          corsConf, req, invoked, params, res, log, last, nCalls, app, calls,
          exchanges>>

registry == <<routes, static, dynamic, fallbackRoute, registered>>
request  == <<req, invoked, params, res, log>>
lifecycle == <<app, calls>>

---------------------------------------------------------------------------
(* Bounds of the model *)

\* successful addEndpoint calls explored per registry
MaxRoutes == 2
\* calls user code makes on one response
MaxCalls == 3
\* Route records pushed to one Router
MaxRouterRoutes == 2

---------------------------------------------------------------------------
(* Values *)

Undefined == "undefined"
NoValue   == [k |-> "undefined"]
NoThrow   == [name |-> "none", status |-> 0, message |-> NoValue, type |-> ""]

\* new App(opts): an app in standby that has no listener yet; port: conf.port
\* is set; conns: the connections of _conns that are open. History: accepts,
\* the connections the listener accepted so far; listens, startups,
\* shutdowns, how often a listener was opened and each hook was invoked;
\* unmatched, how the last startup hook ended ("returned", "threw") if the
\* shutdown hook was not invoked since, else "none"
StandbyApp(port) ==
    [state |-> "standby", port |-> port, server |-> "none", conns |-> 0,
     listens |-> 0, startups |-> 0, shutdowns |-> 0, accepts |-> 0,
     unmatched |-> "none"]

\* the app was constructed and neither started nor stopped, and no request
\* reached it
Constructed == app = StandbyApp(FALSE) /\ calls = <<>> /\ exchanges = <<>>

Handlers  == {"h1", "h2"}
\* a handler argument that is not a function
NotAFunction == "notAFunction"

\* the characters [\w\d] of the model's alphabet
WordChars == {"a", "b", "x", "y", "_", "0"}
\* the class [\w\d\-\._~] of a `:name` segment
ParamChars == WordChars \cup {"-", ".", "~"}

Str(s) == [k |-> "string", v |-> s]
Buf(b) == [k |-> "buffer", v |-> b]
\* a number, and an object given by its JSON text
Num(n) == [k |-> "number", v |-> n]
Obj(json) == [k |-> "object", v |-> json]

---------------------------------------------------------------------------
(* String helpers *)

toUpperCase(m) ==
    CASE m = "get"     -> "GET"
      [] m = "post"    -> "POST"
      [] m = "put"     -> "PUT"
      [] m = "patch"   -> "PATCH"
      [] m = "delete"  -> "DELETE"
      [] m = "options" -> "OPTIONS"
      [] m = "all"     -> "ALL"
      [] OTHER         -> m

toLowerCase(m) ==
    CASE m = "GET"     -> "get"
      [] m = "POST"    -> "post"
      [] m = "PUT"     -> "put"
      [] m = "PATCH"   -> "patch"
      [] m = "DELETE"  -> "delete"
      [] m = "OPTIONS" -> "options"
      [] m = "ALL"     -> "all"
      [] OTHER         -> m

\* s.indexOf(c1 c2) >= 0
RECURSIVE HasPair(_, _, _)
HasPair(s, c1, c2) ==
    IF Len(s) < 2 THEN FALSE
    ELSE (s[1] = c1 /\ s[2] = c2) \/ HasPair(Tail(s), c1, c2)

HasChar(s, c) == \E i \in 1..Len(s) : s[i] = c

\* s.split(sep): the pieces between separators, empty ones included
RECURSIVE SplitOn(_, _, _, _)
SplitOn(s, sep, i, cur) ==
    IF i > Len(s) THEN <<cur>>
    ELSE IF s[i] = sep THEN <<cur>> \o SplitOn(s, sep, i + 1, <<>>)
    ELSE SplitOn(s, sep, i + 1, Append(cur, s[i]))

Split(s) == SplitOn(s, "/", 1, <<>>)

\* items.join(sep)
RECURSIVE Join(_, _)
Join(items, sep) ==
    IF items = <<>> THEN <<>>
    ELSE IF Len(items) = 1 THEN items[1]
    ELSE items[1] \o sep \o Join(Tail(items), sep)

\* 'METHOD path'
RouteKey(m, path) == <<m, " ">> \o path

---------------------------------------------------------------------------
(* pathToRegexp and RegExp.exec *)

\* One regular-expression atom: a literal character, `.`, or the capture
\* group ([\w\d\-\._~]+); star marks a following `*`.
Lit(c)  == [t |-> "lit", c |-> c, star |-> FALSE]
AnyChr  == [t |-> "any", c |-> ".", star |-> FALSE]
Group   == [t |-> "group", c |-> "", star |-> FALSE]

\* The atoms the RegExp constructor reads from the source text of a literal
\* segment: `.` is any character, `*` repeats the atom before it.
RECURSIVE SegAtoms(_, _, _)
SegAtoms(seg, i, out) ==
    IF i > Len(seg) THEN out
    ELSE IF seg[i] = "*" /\ Len(out) > 0
         THEN SegAtoms(seg, i + 1, [out EXCEPT ![Len(out)].star = TRUE])
    ELSE IF seg[i] = "."
         THEN SegAtoms(seg, i + 1, Append(out, AnyChr))
    ELSE SegAtoms(seg, i + 1, Append(out, Lit(seg[i])))

RECURSIVE CompileSegs(_, _, _)
CompileSegs(segs, i, acc) ==
    IF i > Len(segs) THEN acc
    ELSE LET seg == segs[i] IN
         IF seg = <<>> THEN CompileSegs(segs, i + 1, acc)
         ELSE IF seg[1] = ":"
         THEN CompileSegs(segs, i + 1,
                 [regexp |-> acc.regexp \o <<Lit("/"), Group>>,
                  params |-> Append(acc.params, SubSeq(seg, 2, Len(seg)))])
         ELSE CompileSegs(segs, i + 1,
                 [regexp |-> SegAtoms(seg, 1, Append(acc.regexp, Lit("/"))),
                  params |-> acc.params])

pathToRegexp(path) ==
    CompileSegs(Split(path), 1, [regexp |-> <<>>, params |-> <<>>])

AtomMatches(a, c) ==
    CASE a.t = "lit"   -> a.c = c
      [] a.t = "any"   -> TRUE
      [] a.t = "group" -> c \in ParamChars

\* how many characters from position j on the atom matches in a row
RECURSIVE RunLen(_, _, _)
RunLen(a, s, j) ==
    IF j > Len(s) \/ ~AtomMatches(a, s[j]) THEN 0
    ELSE 1 + RunLen(a, s, j + 1)

\* Backtracking match of atoms i.. against s from j, anchored at the end.
\* The result is {} (no match) or {captures}, the first match in the
\* engine's order (repetitions are greedy).
RECURSIVE MatchAt(_, _, _, _), TryRun(_, _, _, _, _, _)
MatchAt(re, i, s, j) ==
    IF i > Len(re) THEN (IF j > Len(s) THEN {<<>>} ELSE {})
    ELSE LET a == re[i] IN
         IF a.t = "group" THEN TryRun(re, i, s, j, RunLen(a, s, j), 1)
         ELSE IF a.star THEN TryRun(re, i, s, j, RunLen(a, s, j), 0)
         ELSE IF j <= Len(s) /\ AtomMatches(a, s[j])
              THEN MatchAt(re, i + 1, s, j + 1)
              ELSE {}

TryRun(re, i, s, j, n, min) ==
    IF n < min THEN {}
    ELSE LET rest == MatchAt(re, i + 1, s, j + n) IN
         IF rest # {}
         THEN IF re[i].t = "group"
              THEN {<<SubSeq(s, j, j + n - 1)>> \o c : c \in rest}
              ELSE rest
         ELSE TryRun(re, i, s, j, n - 1, min)

\* r.regexp.exec(path): the captured groups, or null
RegExpExec(re, s) ==
    LET m == MatchAt(re, 1, s, 1) IN
    IF m = {} THEN [matched |-> FALSE, groups |-> <<>>]
    ELSE [matched |-> TRUE, groups |-> CHOOSE c \in m : TRUE]

---------------------------------------------------------------------------
(* The logger collaborator: an entry is the level method called plus the   *)
(* fields of the entry the claims read.                                    *)

LogEntry(fn, type, level, status) ==
    [fn |-> fn, type |-> type, level |-> level, status |-> status]

Logged(e, entry) == [e EXCEPT !.log = Append(@, entry)]

---------------------------------------------------------------------------
(* Thrown values *)

Thrown(name, status, message, type) ==
    [name |-> name, status |-> status, message |-> message, type |-> type]

HTTPError(status, message, type) == Thrown("HTTPError", status, message, type)

\* what enqueue() and close() of a ReadableStream controller throw once the
\* stream was closed
StreamTypeError ==
    Thrown("TypeError", 0, Str(<<"c","l","o","s","e","d">>), "")

Throws(e) == e.threw.name # "none"

---------------------------------------------------------------------------
(* CafResponse *)

\* the constructor: status 200, no header, an open empty stream, an
\* unresolved `sent` promise
NewResponse ==
    [statusCode  |-> 200,
     headersSent |-> FALSE,
     finished    |-> FALSE,
     headersObj  |-> <<>>,
     stream      |-> [chunks |-> <<>>, closeRequested |-> FALSE],
     body        |-> NoValue,
     resolved    |-> 0]

\* an effect: the response, the log, what the call threw and, for error()
\* and handleError(), the HTTPError it returned
Effect(r, l) == [res |-> r, log |-> l, threw |-> NoThrow, ret |-> NoThrow]

\* new TextEncoder().encode(s), over the model's alphabet (all ASCII)
CharCode(c) ==
    CASE c = "a" -> 97  [] c = "b" -> 98  [] c = "x" -> 120 [] c = "y" -> 121
      [] c = "/" -> 47  [] c = ":" -> 58  [] c = "." -> 46  [] c = "*" -> 42
      [] c = "-" -> 45  [] c = "_" -> 95  [] c = "~" -> 126 [] c = "0" -> 48
      [] c = "%" -> 37  [] c = "s" -> 115 [] c = " " -> 32
      [] c = "1" -> 49  [] c = "2" -> 50  [] c = "3" -> 51  [] c = "4" -> 52
      [] c = "5" -> 53  [] c = "6" -> 54  [] c = "7" -> 55  [] c = "8" -> 56
      [] c = "9" -> 57  [] c = "{" -> 123 [] c = "}" -> 125
      [] OTHER -> 63

TextEncode(s) == [i \in 1..Len(s) |-> CharCode(s[i])]

\* the bytes write() enqueues for a chunk
ChunkBytes(chunk) ==
    IF chunk.k = "buffer" THEN chunk.v ELSE TextEncode(chunk.v)

\* JavaScript truthiness of an optional string | ArrayBuffer
Truthy(v) ==
    CASE v.k = "undefined" -> FALSE
      [] v.k = "string"    -> Len(v.v) > 0
      [] OTHER             -> TRUE

\* mutant: a closed stream still takes chunks and another close
CanCloseOrEnqueue_Always(stream) == TRUE

\* ReadableStreamDefaultControllerCanCloseOrEnqueue: false once close() was
\* called; enqueue() and close() then throw a TypeError
CanCloseOrEnqueue(stream) == ~stream.closeRequested

\* mutant: the guard on headersSent is left out
sendHead_Unguarded(e) ==
    [e EXCEPT !.res.headersSent = TRUE, !.res.resolved = @ + 1]

sendHead(e) ==
    IF e.res.headersSent THEN e
    ELSE [e EXCEPT !.res.headersSent = TRUE, !.res.resolved = @ + 1]

\* write(), after sendHead: streamCtrl.enqueue(bytes), then the bytes are
\* appended to this.body
enqueueChunk(e, bytes) ==
    IF ~CanCloseOrEnqueue(e.res.stream)
    THEN [e EXCEPT !.threw = StreamTypeError]
    ELSE [e EXCEPT !.res.stream.chunks = Append(@, bytes),
                   !.res.body = IF @.k = "undefined" THEN Buf(bytes)
                                ELSE Buf(@.v \o bytes)]

write(e, chunk) == enqueueChunk(sendHead(e), ChunkBytes(chunk))

\* the 'response' entry end() logs
ResponseEntry(r) ==
    LogEntry("debug", "response",
             IF r.statusCode > 499 THEN "warn" ELSE "debug", r.statusCode)

\* the warning end() logs on a finished response
EndTwiceEntry == LogEntry("warn", "", "", 0)

\* end(): if(this.finished) this.log.warn(...)
warnIfFinished(e) ==
    IF e.res.finished THEN Logged(e, EndTwiceEntry) ELSE e

\* end(): body ? this.write(body) : this.sendHead()
writeOrSendHead(e, body) ==
    IF Truthy(body) THEN write(e, body) ELSE sendHead(e)

\* end(): this.log.debug({... type: 'response'}); this.finished = true
logAndFinish(e) ==
    [e EXCEPT !.log = Append(@, ResponseEntry(e.res)), !.res.finished = TRUE]

\* end(): this.streamCtrl?.close() and what follows it, unless the write or
\* the close threw
closeStream(e) ==
    IF Throws(e) THEN e
    ELSE IF ~CanCloseOrEnqueue(e.res.stream)
    THEN [e EXCEPT !.threw = StreamTypeError]
    ELSE logAndFinish([e EXCEPT !.res.stream.closeRequested = TRUE])

end(e, body) == closeStream(writeOrSendHead(warnIfFinished(e), body))

\* Headers.set, header names lower-cased as the Headers class keeps them.
\* A header value is a sequence of tokens: words without comma or blank,
\* and the separators "," and " " (the empty string is <<>>).
set(e, k, v) == [e EXCEPT !.res.headersObj = (k :> v) @@ @]

\* Headers.get(k) ?? ''
get(r, k) == IF k \in DOMAIN r.headersObj THEN r.headersObj[k] ELSE <<>>

SHORT_CONTENT_TYPES(ct) ==
    CASE ct = "text" -> "text/plain"
      [] ct = "json" -> "application/json"
      [] OTHER       -> ct

type(e, ct) == set(e, "content-type", <<SHORT_CONTENT_TYPES(ct)>>)

status(e, s) == [e EXCEPT !.res.statusCode = s]

\* types.ts: the content type inferred from a message payload
getContentTypeFromDataType(data) ==
    CASE data.k = "undefined" -> Undefined
      [] data.k = "buffer"    -> Undefined
      [] data.k = "string"    -> IF data.v = <<>> THEN Undefined ELSE "text/plain"
      [] data.k = "object"    -> "application/json"
      [] OTHER                -> "text/plain"

\* sprintf(message, ...args.map(String)): each %s takes the next argument
RECURSIVE sprintf(_, _)
sprintf(fmt, args) ==
    IF fmt = <<>> THEN <<>>
    ELSE IF Len(fmt) >= 2 /\ fmt[1] = "%" /\ fmt[2] = "s" /\ args # <<>>
         THEN Head(args) \o sprintf(SubSeq(fmt, 3, Len(fmt)), Tail(args))
    ELSE <<Head(fmt)>> \o sprintf(Tail(fmt), args)

\* the decimal digit of d
Digit(d) ==
    CASE d = 0 -> "0" [] d = 1 -> "1" [] d = 2 -> "2" [] d = 3 -> "3"
      [] d = 4 -> "4" [] d = 5 -> "5" [] d = 6 -> "6" [] d = 7 -> "7"
      [] d = 8 -> "8" [] d = 9 -> "9"

\* String(n) of a natural number
RECURSIVE NumberToString(_)
NumberToString(n) ==
    IF n < 10 THEN <<Digit(n)>>
    ELSE Append(NumberToString(n \div 10), Digit(n % 10))

\* JSON.stringify of an object, String of any other value
Stringify(message) ==
    IF message.k = "number" THEN NumberToString(message.v) ELSE message.v

\* error(): the message as it is sent
FormatMessage(message, args) ==
    IF message.k = "string" THEN Str(sprintf(message.v, args))
    ELSE IF getContentTypeFromDataType(message) # Undefined
    THEN Str(Stringify(message))
    ELSE message

\* type && this.type(type)
typeIfAny(e, ct) == IF ct # Undefined THEN type(e, ct) ELSE e

\* the value a call returns, unless it threw
Returning(e, value) == IF Throws(e) THEN e ELSE [e EXCEPT !.ret = value]

\* error(status, message, ...args) with an integer status
error(e, st, message, args) ==
    Returning(
        end(typeIfAny(status(e, st), getContentTypeFromDataType(message)),
            FormatMessage(message, args)),
        HTTPError(st, FormatMessage(message, args),
                  IF getContentTypeFromDataType(message) # Undefined
                  THEN getContentTypeFromDataType(message) ELSE "text/plain"))

\* mutant: the value error() returned is not thrown
ThrowReturned_Swallowed(e) == e

\* throw <what error() returned>
ThrowReturned(e) ==
    IF Throws(e) THEN e ELSE [e EXCEPT !.threw = e.ret, !.ret = NoThrow]

\* mutant: an absent message defaults to a text
OrEmpty_Text(message) ==
    IF message.k = "undefined" THEN Str(<<"x">>) ELSE message

\* message ?? ''
OrEmpty(message) == IF message.k = "undefined" THEN Str(<<>>) ELSE message

\* mutant: the condition is not looked at
assert_Unconditional(e, st, cond, message, args) ==
    ThrowReturned(error(e, st, OrEmpty(message), args))

\* assert(status, cond, message, ...args): throws what error() returns
assert(e, st, cond, message, args) ==
    IF ~cond THEN e
    ELSE ThrowReturned(error(e, st, OrEmpty(message), args))

\* the status each assertion helper passes to assert()
HelperStatus(helper) ==
    CASE helper = "badRequest"   -> 400
      [] helper = "unauthorized" -> 401
      [] helper = "forbidden"    -> 403
      [] helper = "notFound"     -> 404
      [] helper = "conflict"     -> 409
      [] helper = "gone"         -> 410
      [] helper = "badType"      -> 415

AssertHelpers == {"badRequest", "unauthorized", "forbidden", "notFound",
                  "conflict", "gone", "badType"}

---------------------------------------------------------------------------
(* error.ts *)

\* mutant: anything unknown is taken for a client error
anythingToError_Client(thing) ==
    IF thing.name = "HTTPError" THEN thing
    ELSE HTTPError(400, thing.message, "text")

anythingToError(thing) ==
    CASE thing.name = "HTTPError" -> thing
      [] thing.name \in {"Error", "TypeError"} ->
            HTTPError(500, thing.message, "text")
      [] thing.name = "object" -> HTTPError(500, thing.message, "json")
      [] OTHER -> HTTPError(500, thing.message, "text")

\* mutant: the response is finalized whether finished or not
finalizeUnlessFinished_Always(e, herr) ==
    end(type(status(e, herr.status), herr.type), Str(<<>>))

\* handleError: if(!res.finished) res.status(..).type(..).end('')
finalizeUnlessFinished(e, herr) ==
    IF ~e.res.finished
    THEN end(type(status(e, herr.status), herr.type), Str(<<>>))
    ELSE e

\* handleError, given the normalized error
handleNormalized(e, herr) ==
    IF herr.status > 499
    THEN Returning(
            finalizeUnlessFinished(Logged(e, LogEntry("error", "route", "", 0)),
                                   herr),
            herr)
    ELSE Returning(e, herr)

handleError(e, err) == handleNormalized(e, anythingToError(err))

\* CafResponse.error(status) with a status that is not an integer:
\* return handleError(status, this.reqInfo, this, this.log)
errorOf(e, thing) == handleError(e, thing)

\* values a handler throws or rejects with that are no HTTPError: an Error,
\* a plain object, a string, and nothing at all
ErrorThing     == Thrown("Error", 0, Str(<<"x">>), "")
ObjectThing    == Thrown("object", 0, Str(<<"{", "}">>), "")
StringThing    == Thrown("string", 0, Str(<<"x">>), "")
UndefinedThing ==
    Thrown("undefined", 0, Str(<<"u","n","d","e","f","i","n","e","d">>), "")

---------------------------------------------------------------------------
(* cors.ts *)

\* CorsOptions; an absent option is NoValue
CorsOptions(origin, methods, allowedHeaders, exposedHeaders, credentials, maxAge) ==
    [k |-> "object", origin |-> origin, methods |-> methods,
     allowedHeaders |-> allowedHeaders, exposedHeaders |-> exposedHeaders,
     credentials |-> credentials, maxAge |-> maxAge]

\* conf: { cors: {} }
EmptyCors == CorsOptions(NoValue, NoValue, NoValue, NoValue, NoValue, NoValue)

DEFAULT_METHODS == <<"GET", ",", "HEAD", ",", "PUT", ",", "PATCH", ",",
                     "POST", ",", "DELETE">>

\* item.trim()
RECURSIVE Trim(_)
Trim(s) ==
    IF s # <<>> /\ Head(s) = " " THEN Trim(Tail(s))
    ELSE IF s # <<>> /\ s[Len(s)] = " " THEN Trim(SubSeq(s, 1, Len(s) - 1))
    ELSE s

\* toLowerCase() of a header-value word
LowerWord(w) ==
    CASE w = "Origin" -> "origin"
      [] w = "Accept" -> "accept"
      [] w = "Access-Control-request-Headers" -> "access-control-request-headers"
      [] OTHER -> w

LowerAll(s) == [i \in 1..Len(s) |-> LowerWord(s[i])]

\* setVaryHeader: curVal.split(',').map(item => item.trim().toLowerCase())
VaryValues(curVal) ==
    [i \in 1..Len(SplitOn(curVal, ",", 1, <<>>)) |->
        LowerAll(Trim(SplitOn(curVal, ",", 1, <<>>)[i]))]

\* if(!values.includes(nv)) values.push(nv)
PushIfMissing(values, nv) ==
    IF \E i \in 1..Len(values) : values[i] = nv THEN values
    ELSE Append(values, nv)

setVaryHeader(e, newValue) ==
    IF get(e.res, "vary") = <<"*">> THEN e
    ELSE IF newValue = "*" THEN set(e, "vary", <<"*">>)
    ELSE set(e, "vary",
             Join(PushIfMissing(VaryValues(get(e.res, "vary")),
                                <<LowerWord(newValue)>>),
                  <<",", " ">>))

RECURSIVE isOriginAllowed(_, _)
isOriginAllowed(requestOrigin, allowedOrigin) ==
    CASE allowedOrigin.k = "array" ->
            \E i \in 1..Len(allowedOrigin.v) :
                isOriginAllowed(requestOrigin, allowedOrigin.v[i])
      [] allowedOrigin.k = "string"  -> requestOrigin = allowedOrigin.v
      [] allowedOrigin.k = "regexp"  -> requestOrigin \in allowedOrigin.v
      [] allowedOrigin.k = "boolean" -> allowedOrigin.v
      [] OTHER -> FALSE

\* !x of an option value
Falsy(x) ==
    CASE x.k = "undefined" -> TRUE
      [] x.k = "boolean"   -> ~x.v
      [] x.k = "string"    -> x.v = ""
      [] x.k = "words"     -> x.v = <<>>
      [] OTHER             -> FALSE

\* x?.length of a string | string[] option
HasLength(x) == x.k \in {"words", "array"} /\ x.v # <<>>

\* Array.isArray(x) ? x.join(",") : x
JoinedOrString(x) ==
    IF x.k = "array" THEN Join([i \in 1..Len(x.v) |-> <<x.v[i]>>], <<",">>)
    ELSE x.v

\* initCors: Access-Control-Allow-Origin (and Vary)
corsOrigin(e, o, origin) ==
    IF Falsy(o) \/ (o.k = "string" /\ o.v = "*")
    THEN set(e, "access-control-allow-origin", <<"*">>)
    ELSE IF o.k = "string"
    THEN setVaryHeader(set(e, "access-control-allow-origin", <<o.v>>), "Origin")
    ELSE setVaryHeader(
            set(e, "access-control-allow-origin",
                IF isOriginAllowed(origin, o) THEN <<origin>> ELSE <<"false">>),
            "Origin")

\* initCors: Access-Control-Allow-Credentials
corsCredentials(e, opts) ==
    IF opts.credentials.k = "boolean" /\ opts.credentials.v
    THEN set(e, "access-control-allow-credentials", <<"true">>)
    ELSE e

\* initCors: Access-Control-Expose-Headers
corsExposed(e, opts) ==
    IF HasLength(opts.exposedHeaders)
    THEN set(e, "access-control-expose-headers",
             JoinedOrString(opts.exposedHeaders))
    ELSE e

initCors(e, opts, origin) ==
    corsExposed(corsCredentials(corsOrigin(e, opts.origin, origin), opts), opts)

\* handleOptions: Access-Control-Allow-Methods
corsMethods(e, opts) ==
    set(e, "access-control-allow-methods",
        IF opts.methods.k = "undefined" THEN DEFAULT_METHODS
        ELSE JoinedOrString(opts.methods))

\* handleOptions: Access-Control-Allow-Headers (and Vary)
corsAllowedHeaders(e, opts, neededHeaders) ==
    IF Falsy(opts.allowedHeaders)
    THEN IF neededHeaders # <<>>
         THEN set(setVaryHeader(e, "Access-Control-request-Headers"),
                  "access-control-allow-headers", neededHeaders)
         ELSE setVaryHeader(e, "Access-Control-request-Headers")
    ELSE IF HasLength(opts.allowedHeaders)
         THEN set(e, "access-control-allow-headers",
                  JoinedOrString(opts.allowedHeaders))
         ELSE e

\* handleOptions: Access-Control-Max-Age
corsMaxAge(e, opts) ==
    IF opts.maxAge.k = "number"
    THEN set(e, "access-control-max-age", <<opts.maxAge.v>>)
    ELSE e

handleOptions(e, opts, neededHeaders) ==
    end(set(status(corsMaxAge(corsAllowedHeaders(corsMethods(e, opts), opts,
                                                 neededHeaders), opts),
                   204),
            "content-length", <<"0">>),
        NoValue)

\* the request headers the dispatcher reads
Headers(origin, acrh) == [origin |-> origin, acrh |-> acrh]

\* cors(), once opts && origin holds
corsApply(e, opts, method, headers) ==
    IF method = "OPTIONS"
    THEN handleOptions(initCors(e, opts, headers.origin), opts, headers.acrh)
    ELSE initCors(e, opts, headers.origin)

\* mutant: the guard `opts && origin` is left out
cors_Unguarded(e, opts, method, headers) ==
    corsApply(e, IF opts.k = "undefined" THEN EmptyCors ELSE opts, method,
              [headers EXCEPT !.origin = IF @ = Undefined THEN "null" ELSE @])

cors(e, opts, method, headers) ==
    IF opts.k # "undefined" /\ headers.origin # Undefined
    THEN corsApply(e, opts, method, headers)
    ELSE e

---------------------------------------------------------------------------
(* api.ts: the route registry *)

\* what assert() of the registry throws
RouteConflict    == Thrown("AssertionError", 0, NoValue, "is already defined")
NotFunctionError == Thrown("AssertionError", 0, NoValue, "must be a function")

\* the value matchRoute returns when nothing matches and no fallback is set
NoHandler == "false"

\* a call on the API (route: the key it was about) or on the response (arg:
\* the chunk passed; pre: the response was finished before the call)
CallWith(op, threw, route, pre, arg) ==
    [op |-> op, threw |-> threw, route |-> route, pre |-> pre, arg |-> arg]

Call(op, threw, route, pre) == CallWith(op, threw, route, pre, NoValue)

\* path.indexOf('/:') < 0 && path.indexOf('*') < 0
IsStaticPath(path) == ~HasPair(path, "/", ":") /\ ~HasChar(path, "*")

\* mutant: the duplicate check never fires
IsDup_Never(rs, route) == FALSE

\* const dup = route in this.routes
IsDup(rs, route) == route \in rs

\* mutant: unshift instead of push
PushDynamic_Front(list, entry) == <<entry>> \o list

\* this.dynamic[m].push(entry)
PushDynamic(list, entry) == Append(list, entry)

\* mutant: the fallback check is dropped
NoFallbackYet_Always(fb) == TRUE

\* !this.fallbackRoute
NoFallbackYet(fb) == fb = Undefined

\* params of a dynamic match: r.params.forEach((p, i) => params[p] = match[i + 1])
Bind(names, groups) ==
    [n \in {names[i] : i \in 1..Len(names)} |->
        groups[CHOOSE i \in 1..Len(names) :
                  /\ names[i] = n
                  /\ \A j \in 1..Len(names) : names[j] = n => j <= i]]

\* the for..of loop of matchRoute over this.dynamic[method]
RECURSIVE ScanDynamic(_, _, _)
ScanDynamic(list, i, path) ==
    IF i > Len(list) THEN [found |-> FALSE, handler |-> NoHandler, params |-> <<>>]
    ELSE LET match == RegExpExec(list[i].regexp, path) IN
         IF match.matched
         THEN [found |-> TRUE, handler |-> list[i].handler,
               params |-> Bind(list[i].params, match.groups)]
         ELSE ScanDynamic(list, i + 1, path)

\* mutant: the fallback is never consulted
FallbackOrFalse_Never == NoHandler

\* this.fallbackRoute ?? false
FallbackOrFalse == IF fallbackRoute = Undefined THEN NoHandler ELSE fallbackRoute

\* what matchRoute returns: the handler, the params it bound and (history
\* only) the table the handler came from
Matched(handler, ps, kind) == [handler |-> handler, params |-> ps, kind |-> kind]

\* the for..of loop of matchRoute, then return this.fallbackRoute ?? false
scanOrFallback(d) ==
    IF d.found THEN Matched(d.handler, d.params, "dynamic")
    ELSE Matched(FallbackOrFalse, <<>>,
                 IF FallbackOrFalse = NoHandler THEN "none" ELSE "fallback")

\* mutant: the dynamic list is scanned before the static table
matchRoute_DynamicFirst(method, path) ==
    IF method \in DOMAIN dynamic
       /\ ScanDynamic(dynamic[method], 1, path).found
    THEN scanOrFallback(ScanDynamic(dynamic[method], 1, path))
    ELSE IF RouteKey(method, path) \in DOMAIN static
    THEN Matched(static[RouteKey(method, path)], <<>>, "static")
    ELSE scanOrFallback(ScanDynamic(<<>>, 1, path))

matchRoute(method, path) ==
    IF RouteKey(method, path) \in DOMAIN static
    THEN Matched(static[RouteKey(method, path)], <<>>, "static")
    ELSE scanOrFallback(
            IF method \in DOMAIN dynamic
            THEN ScanDynamic(dynamic[method], 1, path)
            ELSE ScanDynamic(<<>>, 1, path))

\* the fields of an API object that registration writes
Registry(rs, st, dy, fb, rg) ==
    [routes |-> rs, static |-> st, dynamic |-> dy, fallbackRoute |-> fb,
     registered |-> rg]

EmptyRegistry == Registry({}, <<>>, <<>>, Undefined, <<>>)

\* what a registration call leaves behind: the registry, what it threw and
\* the route key it was about
Registration(g, threw, route) == [g |-> g, threw |-> threw, route |-> route]

\* the record addEndpoint pushes to this.dynamic[m]
DynamicEntry(c, handler) ==
    [regexp |-> c.regexp, handler |-> handler, params |-> c.params]

\* this.dynamic[m] = this.dynamic[m] ?? []
DynamicOf(dy, m) == IF m \in DOMAIN dy THEN dy[m] ELSE <<>>

\* addEndpoint, once both assertions passed: the route key is recorded and
\* the handler filed in the static table or the method's dynamic list
fileRoute(g, m, path, handler, helper) ==
    [g EXCEPT
        !.routes = @ \cup {RouteKey(m, path)},
        !.registered = Append(@, [method |-> m, path |-> path,
                                  handler |-> handler, helper |-> helper]),
        !.static = IF IsStaticPath(path)
                   THEN (RouteKey(m, path) :> handler) @@ @ ELSE @,
        !.dynamic = IF IsStaticPath(path) THEN @
                    ELSE (m :> PushDynamic(DynamicOf(@, m),
                                 DynamicEntry(pathToRegexp(path), handler))) @@ @]

\* API.addEndpoint(method, path, handler), with m = method.toUpperCase();
\* helper names the route-definition helper that made the call (history only)
addEndpointUpper(g, m, path, handler, helper) ==
    IF IsDup(g.routes, RouteKey(m, path))
    THEN Registration(g, RouteConflict, RouteKey(m, path))
    ELSE IF handler \notin Handlers
    THEN Registration(g, NotFunctionError, RouteKey(m, path))
    ELSE Registration(fileRoute(g, m, path, handler, helper), NoThrow,
                      RouteKey(m, path))

addEndpoint(g, method, path, handler, helper) ==
    addEndpointUpper(g, toUpperCase(method), path, handler, helper)

\* API.setFallbackRoute(handler)
setFallbackRoute(g, handler) ==
    IF ~NoFallbackYet(g.fallbackRoute)
    THEN Registration(g, RouteConflict, <<>>)
    ELSE IF handler \notin Handlers
    THEN Registration(g, NotFunctionError, <<>>)
    ELSE Registration([g EXCEPT !.fallbackRoute = handler], NoThrow, <<>>)

\* the 'request' entry trigger() logs
RequestEntry == LogEntry("debug", "request", "", 0)

\* the handler trigger() called and (history only) the table it came from
Invoked(handler, kind) == [handler |-> handler, kind |-> kind]
NotInvoked == Invoked(Undefined, "none")

\* trigger(): the catch block around res.notFound(!handler) and the handler
catchNotFound(e, m) ==
    IF Throws(e)
    THEN [e |-> handleError([e EXCEPT !.threw = NoThrow], e.threw),
          invoked |-> NotInvoked, params |-> m.params]
    ELSE [e |-> e, invoked |-> Invoked(m.handler, m.kind), params |-> m.params]

\* mutant: res.notFound(!handler) is left out
dispatch_NoNotFound(e, m) == catchNotFound(e, m)

\* trigger(), from the route match on: res.notFound(!handler), then the
\* call of the handler (invoked; NotInvoked when none is called)
dispatch(e, m) ==
    catchNotFound(assert(e, HelperStatus("notFound"), m.handler = NoHandler,
                         NoValue, <<>>), m)

\* mutant: no return after a finished preflight
afterCors_NoReturn(e, method, path) ==
    dispatch(Logged(e, RequestEntry), matchRoute(method, path))

\* trigger(), after cors(): if(res.finished) return res
afterCors(e, method, path) ==
    IF e.res.finished
    THEN [e |-> e, invoked |-> NotInvoked, params |-> <<>>]
    ELSE dispatch(Logged(e, RequestEntry), matchRoute(method, path))

\* API.trigger up to the first await of its async body: a fresh response,
\* CORS, the request log entry, the route match and the dispatch
trigger(method, path, headers) ==
    afterCors(cors(Effect(NewResponse, <<>>), corsConf, method, headers),
              method, path)

Request(method, path, headers) ==
    [method |-> method, path |-> path, headers |-> headers]

NoRequest == Request("", <<>>, Headers(Undefined, <<>>))

---------------------------------------------------------------------------
(* Inputs *)

P_a_b  == <<"/", "a", "/", "b">>
P_a_a  == <<"/", "a", "/", "a">>
P_b_a  == <<"/", "b", "/", "a">>
P_a    == <<"/", "a">>
P_a_y  == <<"/", "a", "/", ":", "y">>
P_x_y  == <<"/", ":", "x", "/", ":", "y">>

\* methods as the App constructor ('get') and the App helpers ('POST') pass them
RegMethods == {"get", "POST"}
RegPaths   == {P_a_b, P_a_y, P_x_y}
ReqMethods == {"GET", "POST", "OPTIONS"}
ReqPaths   == {P_a_b, P_a_a, P_b_a, P_a}
Origins    == {Undefined, "http://a"}

---------------------------------------------------------------------------
(* SpecRoutes: an app is set up (routes, fallback), then serves requests    *)
(* whose handlers return without touching the response.                    *)

\* the request-side state after construction
InitCommon_NoApp ==
    /\ routes = {}
    /\ static = <<>>
    /\ dynamic = <<>>
    /\ fallbackRoute = Undefined
    /\ registered = <<>>
    /\ routerRoutes = <<>>
    /\ req = NoRequest
    /\ invoked = NotInvoked
    /\ params = <<>>
    /\ res = NewResponse
    /\ log = <<>>
    /\ last = Call("new", NoThrow, <<>>, FALSE)
    /\ nCalls = 0

InitCommon ==
    /\ InitCommon_NoApp
    /\ Constructed

InitRoutes ==
    /\ InitCommon
    /\ corsConf \in {NoValue, EmptyCors}

\* the API object of the app
TheRegistry == Registry(routes, static, dynamic, fallbackRoute, registered)

\* the state a registration call leaves behind
Registered(op, r) ==
    /\ routes' = r.g.routes
    /\ static' = r.g.static
    /\ dynamic' = r.g.dynamic
    /\ fallbackRoute' = r.g.fallbackRoute
    /\ registered' = r.g.registered
    /\ last' = Call(op, r.threw, r.route, FALSE)

\* the registry has room for the route, or the call is refused anyway
HasRoom(m, p) ==
    Len(registered) < MaxRoutes \/ IsDup(routes, RouteKey(toUpperCase(m), p))

AddEndpoint ==
    \E m \in RegMethods, p \in RegPaths, h \in Handlers \cup {NotAFunction} :
        /\ req = NoRequest
        /\ HasRoom(m, p)
        /\ Registered("addEndpoint", addEndpoint(TheRegistry, m, p, h, "addEndpoint"))
        /\ UNCHANGED <<routerRoutes, corsConf, lifecycle, exchanges, request, nCalls>>

SetFallbackRoute ==
    \E h \in Handlers \cup {NotAFunction} :
        /\ req = NoRequest
        /\ Registered("setFallbackRoute", setFallbackRoute(TheRegistry, h))
        /\ UNCHANGED <<routerRoutes, corsConf, lifecycle, exchanges, request, nCalls>>

\* the state API.trigger leaves behind
Triggered(t) ==
    /\ invoked' = t.invoked
    /\ params' = t.params
    /\ res' = t.e.res
    /\ log' = t.e.log
    /\ last' = Call("trigger", t.e.threw, <<>>, FALSE)
    /\ nCalls' = 0

Trigger ==
    \E m \in ReqMethods, p \in ReqPaths, o \in Origins :
        /\ req = NoRequest
        /\ req' = Request(m, p, Headers(o, <<>>))
        /\ Triggered(trigger(m, p, Headers(o, <<>>)))
        /\ UNCHANGED <<registry, routerRoutes, corsConf, lifecycle, exchanges>>

\* the async body of trigger() runs to its end once the handler's result
\* was awaited: the request context and its response are dropped
Settle ==
    /\ req # NoRequest
    /\ req' = NoRequest
    /\ invoked' = NotInvoked
    /\ params' = <<>>
    /\ res' = NewResponse
    /\ log' = <<>>
    /\ last' = Call("settle", NoThrow, <<>>, FALSE)
    /\ nCalls' = 0
    /\ UNCHANGED <<registry, routerRoutes, corsConf, lifecycle, exchanges>>

NextRoutes == AddEndpoint \/ SetFallbackRoute \/ Trigger \/ Settle

SpecRoutes == InitRoutes /\ [][NextRoutes]_vars

---------------------------------------------------------------------------
(* Claims about the route registry and matcher, under SpecRoutes *)

\* the request was answered by the CORS preflight and never reached the matcher
PreflightAnswered ==
    corsConf.k # "undefined" /\ req.headers.origin # Undefined
        /\ req.method = "OPTIONS"

\* the pattern of the i-th registration matches the path
PatternMatches(i, path) ==
    RegExpExec(pathToRegexp(registered[i].path).regexp, path).matched

\* the registrations of dynamic patterns for the request's method that match
\* the request's path
MatchingDynamic ==
    {i \in 1..Len(registered) :
        /\ registered[i].method = req.method
        /\ ~IsStaticPath(registered[i].path)
        /\ PatternMatches(i, req.path)}

\* the registrations of a static route for exactly the request's (method, path)
MatchingStatic ==
    {i \in 1..Len(registered) :
        /\ registered[i].method = req.method
        /\ IsStaticPath(registered[i].path)
        /\ registered[i].path = req.path}

First(S) == CHOOSE i \in S : \A j \in S : i <= j

\* the values pattern i captures from the path, bound to its parameter names
Captured(i, path) ==
    Bind(pathToRegexp(registered[i].path).params,
         RegExpExec(pathToRegexp(registered[i].path).regexp, path).groups)

\* C1: a call of addEndpoint for a (method, path) pair that is already
\* registered throws the route-conflict assertion error at once and leaves
\* the registry as it was; no pair is ever registered twice.
C1_DuplicateRouteConflicts ==
    [][ /\ (last'.op = "addEndpoint" /\ last'.route \in routes)
            => (last'.threw = RouteConflict /\ UNCHANGED registry)
        /\ \A i, j \in 1..Len(registered') :
              (i # j) => RouteKey(registered'[i].method, registered'[i].path)
                           # RouteKey(registered'[j].method, registered'[j].path)
      ]_vars

\* C1 witness: with two routes registered, a re-registration was refused
C1_Witness ==
    /\ last.op = "addEndpoint"
    /\ last.threw = RouteConflict
    /\ Len(registered) = MaxRoutes

\* C2: when dynamic patterns of the request's method match the path (and no
\* static route does), the matcher invokes the handler of the one registered
\* first, with exactly that pattern's captures bound to its parameter names.
C2_FirstRegisteredDynamicWins ==
    (/\ last.op = "trigger"
     /\ ~PreflightAnswered
     /\ MatchingStatic = {}
     /\ MatchingDynamic # {})
    => /\ invoked = Invoked(registered[First(MatchingDynamic)].handler, "dynamic")
       /\ params = Captured(First(MatchingDynamic), req.path)

\* C2 witness: two overlapping patterns with different handlers and different
\* parameter names both match, and the first-registered one was invoked
C2_Witness ==
    /\ last.op = "trigger"
    /\ Cardinality(MatchingDynamic) >= 2
    /\ MatchingStatic = {}
    /\ \E i, j \in MatchingDynamic :
          /\ i < j
          /\ registered[i].handler # registered[j].handler
          /\ Captured(i, req.path) # Captured(j, req.path)
          /\ invoked.handler = registered[i].handler
          /\ params = Captured(i, req.path)

\* C3: when a static route is registered for exactly the request's (method,
\* path), the matcher chooses its handler, also when a dynamic pattern
\* registered earlier matches the path, and no dynamic pattern is consulted
\* (no parameter is bound).
C3_StaticBeforeDynamic ==
    (/\ last.op = "trigger"
     /\ ~PreflightAnswered
     /\ MatchingStatic # {})
    => /\ invoked = Invoked(registered[First(MatchingStatic)].handler, "static")
       /\ params = <<>>

\* C3 witness: a dynamic pattern registered before the static route matches
\* the path too, with another handler, and the static handler was invoked
C3_Witness ==
    /\ last.op = "trigger"
    /\ MatchingStatic # {}
    /\ \E i \in MatchingDynamic :
          /\ i < First(MatchingStatic)
          /\ registered[i].handler # registered[First(MatchingStatic)].handler
    /\ invoked.kind = "static"

\* C4 as stated: with a fallback route set, a request of any method and path
\* invokes the fallback if and only if no static and no dynamic route of its
\* method matches.
C4_Original ==
    (last.op = "trigger" /\ fallbackRoute # Undefined)
    => ((invoked.kind = "fallback")
          <=> (MatchingStatic = {} /\ MatchingDynamic = {}))

\* C4 amended: with a fallback route set, a request that is not answered by
\* the CORS preflight invokes the fallback (and it is the handler set as
\* fallback) if and only if no static and no dynamic route of its method
\* matches.
C4_FallbackIffNoMatch ==
    (last.op = "trigger" /\ fallbackRoute # Undefined /\ ~PreflightAnswered)
    => /\ (invoked.kind = "fallback")
            <=> (MatchingStatic = {} /\ MatchingDynamic = {})
       /\ invoked.kind = "fallback" => invoked.handler = fallbackRoute

\* C4 witness: routes are registered, none matches the request, and the
\* fallback was invoked
C4_Witness ==
    /\ last.op = "trigger"
    /\ Len(registered) = MaxRoutes
    /\ invoked.kind = "fallback"
    /\ invoked.handler = fallbackRoute
    /\ MatchingStatic = {} /\ MatchingDynamic = {}

\* C5 as stated: a request that matches no static and no dynamic route, with
\* no fallback set, is finalized with status 404 and no handler is invoked.
C5_Original ==
    (/\ last.op = "trigger"
     /\ MatchingStatic = {} /\ MatchingDynamic = {}
     /\ fallbackRoute = Undefined)
    => /\ res.statusCode = 404
       /\ res.finished
       /\ invoked = NotInvoked

\* C5 amended: a request that is not answered by the CORS preflight and
\* matches no static and no dynamic route, with no fallback set, is finalized
\* with status 404 and no handler is invoked.
C5_NoMatchIs404 ==
    (/\ last.op = "trigger"
     /\ ~PreflightAnswered
     /\ MatchingStatic = {} /\ MatchingDynamic = {}
     /\ fallbackRoute = Undefined)
    => /\ res.statusCode = 404
       /\ res.finished
       /\ res.headersSent
       /\ invoked = NotInvoked

\* C5 witness: routes are registered, the request matches none and got a 404
C5_Witness ==
    /\ last.op = "trigger"
    /\ Len(registered) >= 1
    /\ fallbackRoute = Undefined
    /\ MatchingStatic = {} /\ MatchingDynamic = {}
    /\ res.statusCode = 404 /\ res.finished
    /\ invoked = NotInvoked

\* C6: once a fallback route is set it stays the fallback route, and every
\* later setFallbackRoute call throws the conflict assertion error.
C6_SingleFallback ==
    [][ (fallbackRoute # Undefined)
          => /\ fallbackRoute' = fallbackRoute
             /\ (last'.op = "setFallbackRoute") => (last'.threw = RouteConflict)
      ]_vars

\* C6 witness: a second setFallbackRoute was refused
C6_Witness ==
    /\ last.op = "setFallbackRoute"
    /\ last.threw = RouteConflict
    /\ fallbackRoute \in Handlers

---------------------------------------------------------------------------
(* app.ts, router.ts: the route-definition helpers *)

\* a Route record; helper names the helper that built it (history only)
Route(method, path, handler, all, helper) ==
    [method |-> method, path |-> path, handler |-> handler, all |-> all,
     helper |-> helper]

\* the fallback path '*'
Star == <<"*">>

\* the exported functions post, put, patch, get, del: the method of the
\* Route each returns
RouteFunctionMethod(fn) ==
    CASE fn = "post"  -> "POST"
      [] fn = "put"   -> "PUT"
      [] fn = "patch" -> "PATCH"
      [] fn = "get"   -> "GET"
      [] fn = "del"   -> "DELETE"

routeFunction(fn, path, handler) ==
    Route(RouteFunctionMethod(fn), path, handler, FALSE, fn)

\* the exported function all
allFunction(handler) == Route("ALL", Star, handler, TRUE, "all")

\* Router.post, put, del, patch, options, get: the method of the Route each
\* pushes
RouterMethod(helper) ==
    CASE helper = "Router.post"    -> "POST"
      [] helper = "Router.put"     -> "POST"
      [] helper = "Router.del"     -> "POST"
      [] helper = "Router.patch"   -> "POST"
      [] helper = "Router.options" -> "POST"
      [] helper = "Router.get"     -> "POST"

routerHelper(helper, path, handler) ==
    Route(RouterMethod(helper), path, handler, FALSE, helper)

\* Router.all
routerAll(handler) == Route("all", Star, handler, TRUE, "Router.all")

\* App.post, put, patch, get, del: the method each passes to addEndpoint
AppMethod(helper) ==
    CASE helper = "App.post"  -> "POST"
      [] helper = "App.put"   -> "POST"
      [] helper = "App.patch" -> "POST"
      [] helper = "App.get"   -> "POST"
      [] helper = "App.del"   -> "POST"

appHelper(g, helper, path, handler) ==
    addEndpoint(g, AppMethod(helper), path, handler, helper)

\* App.all
appAll(g, handler) == setFallbackRoute(g, handler)

\* the App constructor: opts.routes?.forEach(r => r.all ? setFallbackRoute
\* : addEndpoint(r.method.toLowerCase(), ...)); a throw ends the loop
constructRoute(g, r) ==
    IF r.all THEN setFallbackRoute(g, r.handler)
    ELSE addEndpoint(g, toLowerCase(r.method), r.path, r.handler, r.helper)

RECURSIVE forEachRoute(_, _, _)
forEachRoute(r, list, i) ==
    IF i > Len(list) \/ r.threw # NoThrow THEN r
    ELSE forEachRoute(constructRoute(r.g, list[i]), list, i + 1)

newApp(list) == forEachRoute(Registration(EmptyRegistry, NoThrow, <<>>), list, 1)

---------------------------------------------------------------------------
(* SpecHelpers: routes are defined through the helpers of App and Router   *)
(* and the exported route functions, then requests are served.             *)

RouteFunctions == {"post", "put", "patch", "get", "del"}
RouterHelpers  == {"Router.post", "Router.put", "Router.del", "Router.patch",
                   "Router.options", "Router.get"}
AppHelpers     == {"App.post", "App.put", "App.patch", "App.get", "App.del"}

\* the HTTP method a helper is named after
Namesake(helper) ==
    CASE helper \in {"post", "Router.post", "App.post"}    -> "POST"
      [] helper \in {"put", "Router.put", "App.put"}       -> "PUT"
      [] helper \in {"patch", "Router.patch", "App.patch"} -> "PATCH"
      [] helper \in {"get", "Router.get", "App.get"}       -> "GET"
      [] helper \in {"del", "Router.del", "App.del"}       -> "DELETE"
      [] helper = "Router.options"                         -> "OPTIONS"
      [] OTHER                                             -> helper

HelperPaths   == {P_a_b, P_a_y}
HelperMethods == {"GET", "POST", "PUT", "PATCH", "DELETE", "OPTIONS"}
HelperReqPaths == {P_a_b, P_a_a}

InitHelpers ==
    /\ InitCommon
    /\ corsConf = NoValue

\* the app was not constructed with routes yet
Unconstructed == last.op \in {"new", "push"}

\* a route function's result is put in the routes array of the options
RouteFunction ==
    \E fn \in RouteFunctions, p \in HelperPaths, h \in Handlers :
        /\ Unconstructed
        /\ Len(routerRoutes) < MaxRouterRoutes
        /\ routerRoutes' = Append(routerRoutes, routeFunction(fn, p, h))
        /\ last' = Call("push", NoThrow, <<>>, FALSE)
        /\ UNCHANGED <<registry, corsConf, lifecycle, exchanges, request, nCalls>>

AllFunction ==
    \E h \in Handlers :
        /\ Unconstructed
        /\ Len(routerRoutes) < MaxRouterRoutes
        /\ routerRoutes' = Append(routerRoutes, allFunction(h))
        /\ last' = Call("push", NoThrow, <<>>, FALSE)
        /\ UNCHANGED <<registry, corsConf, lifecycle, exchanges, request, nCalls>>

RouterHelper ==
    \E helper \in RouterHelpers, p \in HelperPaths, h \in Handlers :
        /\ Unconstructed
        /\ Len(routerRoutes) < MaxRouterRoutes
        /\ routerRoutes' = Append(routerRoutes, routerHelper(helper, p, h))
        /\ last' = Call("push", NoThrow, <<>>, FALSE)
        /\ UNCHANGED <<registry, corsConf, lifecycle, exchanges, request, nCalls>>

RouterAll ==
    \E h \in Handlers :
        /\ Unconstructed
        /\ Len(routerRoutes) < MaxRouterRoutes
        /\ routerRoutes' = Append(routerRoutes, routerAll(h))
        /\ last' = Call("push", NoThrow, <<>>, FALSE)
        /\ UNCHANGED <<registry, corsConf, lifecycle, exchanges, request, nCalls>>

\* new App({ routes }): a throw of the constructor leaves no app behind
NewApp ==
    /\ Unconstructed
    /\ routerRoutes # <<>>
    /\ Registered("newApp",
          IF newApp(routerRoutes).threw = NoThrow THEN newApp(routerRoutes)
          ELSE Registration(EmptyRegistry, newApp(routerRoutes).threw,
                            newApp(routerRoutes).route))
    /\ UNCHANGED <<routerRoutes, corsConf, lifecycle, exchanges, request, nCalls>>

AppHelper ==
    \E helper \in AppHelpers, p \in HelperPaths, h \in Handlers :
        /\ req = NoRequest
        /\ routerRoutes = <<>>
        /\ HasRoom(AppMethod(helper), p)
        /\ Registered("addEndpoint", appHelper(TheRegistry, helper, p, h))
        /\ UNCHANGED <<routerRoutes, corsConf, lifecycle, exchanges, request, nCalls>>

AppAll ==
    \E h \in Handlers :
        /\ req = NoRequest
        /\ routerRoutes = <<>>
        /\ Registered("setFallbackRoute", appAll(TheRegistry, h))
        /\ UNCHANGED <<routerRoutes, corsConf, lifecycle, exchanges, request, nCalls>>

TriggerHelpers ==
    \E m \in HelperMethods, p \in HelperReqPaths :
        /\ req = NoRequest
        /\ last.op \notin {"new", "push"}
        /\ last.threw = NoThrow
        /\ req' = Request(m, p, Headers(Undefined, <<>>))
        /\ Triggered(trigger(m, p, Headers(Undefined, <<>>)))
        /\ UNCHANGED <<registry, routerRoutes, corsConf, lifecycle, exchanges>>

NextHelpers ==
    \/ RouteFunction \/ AllFunction \/ RouterHelper \/ RouterAll \/ NewApp
    \/ AppHelper \/ AppAll \/ TriggerHelpers \/ Settle

SpecHelpers == InitHelpers /\ [][NextHelpers]_vars

\* the registrations made through a helper named after the request's method,
\* for a route that matches the request's path
NamesakeRoutes ==
    {i \in 1..Len(registered) :
        /\ Namesake(registered[i].helper) = req.method
        /\ PatternMatches(i, req.path)}

\* C7: after a route-definition helper is called with (path, handler), a
\* request of the helper's namesake method to that path invokes a handler
\* defined for it through a helper of that name.
C7_HelperDefinesNamesakeMethod ==
    (last.op = "trigger" /\ NamesakeRoutes # {})
    => \E i \in NamesakeRoutes : invoked.handler = registered[i].handler

---------------------------------------------------------------------------
(* SpecResponse: a handler (and then the catch block of trigger) works on   *)
(* the response trigger() handed to it.                                    *)

WriteChunks == {Str(<<"a">>), Str(<<>>), Buf(<<1, 2>>)}
EndBodies   == {NoValue, Str(<<>>), Str(<<"b">>)}
Statuses    == {201, 500}
Messages    == {NoValue, Str(<<"x">>)}
CalledHelpers == {"badRequest", "notFound"}

\* the state in which trigger() calls the fallback handler for GET /a
InitResponse ==
    /\ routes = {}
    /\ static = <<>>
    /\ dynamic = <<>>
    /\ fallbackRoute = "h1"
    /\ registered = <<>>
    /\ routerRoutes = <<>>
    /\ corsConf \in {NoValue, EmptyCors}
    /\ \E o \in Origins :
          /\ req = Request("GET", P_a, Headers(o, <<>>))
          /\ invoked = trigger("GET", P_a, Headers(o, <<>>)).invoked
          /\ params = trigger("GET", P_a, Headers(o, <<>>)).params
          /\ res = trigger("GET", P_a, Headers(o, <<>>)).e.res
          /\ log = trigger("GET", P_a, Headers(o, <<>>)).e.log
    /\ last = Call("trigger", NoThrow, <<>>, FALSE)
    /\ nCalls = 0
    /\ Constructed

\* the state a call on the response leaves behind
Applied(op, e, arg) ==
    /\ res' = e.res
    /\ log' = e.log
    /\ last' = CallWith(op, e.threw, <<>>, res.finished, arg)
    /\ nCalls' = nCalls + 1
    /\ UNCHANGED <<registry, routerRoutes, corsConf, lifecycle, exchanges, req, invoked, params>>

\* the handler is still running and may make another call
Running == nCalls < MaxCalls /\ last.op # "catch"

ResWrite ==
    \E chunk \in WriteChunks :
        /\ Running
        /\ Applied("write", write(Effect(res, log), chunk), chunk)

ResEnd ==
    \E body \in EndBodies :
        /\ Running
        /\ Applied("end", end(Effect(res, log), body), body)

ResStatus ==
    \E s \in Statuses :
        /\ Running
        /\ Applied("status", status(Effect(res, log), s), NoValue)

ResAssert ==
    \E helper \in CalledHelpers, cond \in BOOLEAN, message \in Messages :
        /\ Running
        /\ Applied("assert",
                   assert(Effect(res, log), HelperStatus(helper), cond,
                          message, <<>>),
                   message)

\* trigger(): catch(err){ handleError(err, reqInfo, res, app.log) } when the
\* handler lets what the last call threw escape
Catch ==
    /\ last.op # "catch"
    /\ last.threw # NoThrow
    /\ res' = handleError(Effect(res, log), last.threw).res
    /\ log' = handleError(Effect(res, log), last.threw).log
    /\ last' = CallWith("catch", handleError(Effect(res, log), last.threw).threw,
                        <<>>, res.finished, last.threw)
    /\ UNCHANGED <<registry, routerRoutes, corsConf, lifecycle, exchanges, req, invoked, params, nCalls>>

NextResponse == ResWrite \/ ResEnd \/ ResStatus \/ ResAssert \/ Catch

SpecResponse == InitResponse /\ [][NextResponse]_vars

\* Open, Committed, Closed
Phase(r) == IF r.finished THEN 2 ELSE IF r.headersSent THEN 1 ELSE 0

\* the 'response' entries of a log
ResponseEntries(l) == {i \in 1..Len(l) : l[i].type = "response"}

\* the bytes put in the output stream
StreamBytes(r) == r.stream.chunks

\* C8: a response never moves back from Closed to Committed or from
\* Committed to Open, a write or end call leaves it committed, and the
\* commit signal has fired exactly once from the moment the response is
\* committed, however many write/end calls follow.
C8_PhasesOnlyAdvance ==
    [][ /\ Phase(res') >= Phase(res)
        /\ res'.finished => res'.headersSent
        /\ (last'.op \in {"write", "end"}) => Phase(res') >= 1
        /\ res'.resolved = (IF res'.headersSent THEN 1 ELSE 0)
      ]_vars

\* C8 witness: a chunk was written, the response ended, and a further write
\* followed; the commit signal has fired once
C8_Witness ==
    /\ nCalls = MaxCalls
    /\ last.op = "write" /\ last.pre
    /\ res.finished
    /\ StreamBytes(res) # <<>>
    /\ res.resolved = 1

\* C9: an end() call on a response that is already Closed logs a warning,
\* does not throw and leaves the stream closed.
C9_SecondEndDoesNotThrow ==
    (last.op = "end" /\ last.pre)
    => /\ log # <<>> /\ log[Len(log)].fn = "warn"
       /\ last.threw = NoThrow
       /\ res.stream.closeRequested /\ res.finished

\* C10: an end() call on a response that is already Closed, with or without
\* a chunk, leaves the bytes in the output stream, the Closed state, the
\* commit signal and the number of 'response' log entries as they were.
C10_SecondEndChangesNothing ==
    [][ (last'.op = "end" /\ last'.pre)
          => /\ StreamBytes(res') = StreamBytes(res)
             /\ res'.stream.closeRequested /\ res'.finished
             /\ res'.resolved = res.resolved
             /\ res'.headersSent = res.headersSent
             /\ Cardinality(ResponseEntries(log'))
                  = Cardinality(ResponseEntries(log))
      ]_vars

\* C10 witness: end() was called with a chunk on a response that was Closed
\* with bytes in its stream
C10_Witness ==
    /\ last.op = "end" /\ last.pre
    /\ Truthy(last.arg)
    /\ StreamBytes(res) # <<>>
    /\ Cardinality(ResponseEntries(log)) = 1

---------------------------------------------------------------------------
(* SpecErrors: a handler uses the assertion helpers and error() of the     *)
(* response, or fails; the catch block of trigger intercepts the failure.  *)

\* calls the handler makes on one response before it returns or fails
MaxHandlerCalls == 2

\* message and printf arguments of an assertion
MessageArgs == {<<NoValue, <<>>>>,
                <<Str(<<"x">>), <<>>>>,
                <<Str(<<"a", "%", "s">>), <<(<<"b">>)>>>>}

ErrorStatuses == {404, 501}
ErrorMessages == {NoValue, Str(<<"x">>), Obj(<<"{", "}">>), Num(7)}
Things        == {ErrorThing, ObjectThing, StringThing, UndefinedThing}

\* the arguments of an assertion helper call
AssertArgs(helper, cond, message, args) ==
    [k |-> "assert", helper |-> helper, cond |-> cond, message |-> message,
     args |-> args]

\* the arguments of an error(status, message) call; thrown: the handler
\* throws what the call returns
ErrorArgs(st, message, thrown) ==
    [k |-> "error", status |-> st, message |-> message, thrown |-> thrown]

\* `throw res.error(...)` or just `res.error(...)`
ThrowIf(thrown, e) == IF thrown THEN ThrowReturned(e) ELSE e

StillRunning == nCalls < MaxHandlerCalls /\ last.op # "catch"

ErrWrite ==
    /\ StillRunning
    /\ Applied("write", write(Effect(res, log), Str(<<"a">>)), Str(<<"a">>))

ErrEnd ==
    /\ StillRunning
    /\ Applied("end", end(Effect(res, log), NoValue), NoValue)

ErrStatus ==
    \E s \in Statuses :
        /\ StillRunning
        /\ Applied("status", status(Effect(res, log), s), NoValue)

ErrAssert ==
    \E helper \in AssertHelpers, cond \in BOOLEAN, ma \in MessageArgs :
        /\ StillRunning
        /\ Applied("assert",
                   assert(Effect(res, log), HelperStatus(helper), cond,
                          ma[1], ma[2]),
                   AssertArgs(helper, cond, ma[1], ma[2]))

ErrError ==
    \E st \in ErrorStatuses, message \in ErrorMessages, thrown \in BOOLEAN :
        /\ StillRunning
        /\ Applied("error",
                   ThrowIf(thrown, error(Effect(res, log), st, message, <<>>)),
                   ErrorArgs(st, message, thrown))

ErrErrorOf ==
    \E thing \in Things, thrown \in BOOLEAN :
        /\ StillRunning
        /\ Applied("errorOf",
                   ThrowIf(thrown, errorOf(Effect(res, log), thing)),
                   thing)

\* the handler throws, or the promise it returned rejects
Throw ==
    \E thing \in Things :
        /\ StillRunning
        /\ last.threw = NoThrow
        /\ res' = handleError(Effect(res, log), thing).res
        /\ log' = handleError(Effect(res, log), thing).log
        /\ last' = CallWith("catch", handleError(Effect(res, log), thing).threw,
                            <<>>, res.finished, thing)
        /\ UNCHANGED <<registry, routerRoutes, corsConf, lifecycle, exchanges, req, invoked, params,
                       nCalls>>

NextErrors ==
    \/ ErrWrite \/ ErrEnd \/ ErrStatus \/ ErrAssert \/ ErrError \/ ErrErrorOf
    \/ Throw \/ Catch

SpecErrors == InitResponse /\ [][NextErrors]_vars

\* the bytes of the chunks of a stream, in order
RECURSIVE Flatten(_)
Flatten(chunks) ==
    IF chunks = <<>> THEN <<>> ELSE Head(chunks) \o Flatten(Tail(chunks))

\* the entries of a log written through log.error
ErrorEntries(l) == {i \in 1..Len(l) : l[i].fn = "error"}

\* the status documented for each assertion helper
DocumentedStatus(helper) ==
    CASE helper = "badRequest"   -> 400
      [] helper = "unauthorized" -> 401
      [] helper = "forbidden"    -> 403
      [] helper = "notFound"     -> 404
      [] helper = "conflict"     -> 409
      [] helper = "gone"         -> 410
      [] helper = "badType"      -> 415

\* the step is a call of an assertion helper
AssertionCall == last'.op = "assert" /\ nCalls' = nCalls + 1

\* the step hands a failure to the catch block of trigger
Intercepted == last'.op = "catch" /\ last.op # "catch"

C13_ServerErrorBodyIsEmpty ==
    (/\ last.op = "error"
     /\ nCalls = 1
     /\ last.arg.status >= 500)
    => /\ res.finished
       /\ Flatten(StreamBytes(res)) = <<>>

\* C14: an assertion helper that fires without a message finalizes the
\* response without writing any byte and without setting a Content-Type.
C14_NoMessageNoBodyNoType ==
    [][ (AssertionCall /\ last'.arg.cond /\ last'.arg.message = NoValue
           /\ ~res.finished)
          => /\ res'.finished
             /\ StreamBytes(res') = StreamBytes(res)
             /\ res'.body = res.body
             /\ res'.headersObj = res.headersObj
      ]_vars

\* C14 witness: a helper fired without message on an Open response, which
\* ends with no byte and no Content-Type
C14_Witness ==
    /\ last.op = "assert" /\ last.arg.cond /\ last.arg.message = NoValue
    /\ nCalls = 1
    /\ res.finished
    /\ StreamBytes(res) = <<>>
    /\ "content-type" \notin DOMAIN res.headersObj

\* C15: a failure that is not an HTTPError and reaches the interceptor
\* while the response is Open finalizes it with status 500 and no body,
\* and one error-level entry is logged for it.
C15_UnknownFailureIs500 ==
    [][ (Intercepted /\ last'.arg.name # "HTTPError" /\ Phase(res) = 0)
          => /\ res'.statusCode = 500
             /\ Phase(res') = 2
             /\ StreamBytes(res') = <<>>
             /\ Cardinality(ErrorEntries(log'))
                  = Cardinality(ErrorEntries(log)) + 1
      ]_vars

\* C15 witness: the handler failed with nothing at all on an Open response
C15_Witness ==
    /\ last.op = "catch" /\ ~last.pre
    /\ last.arg = UndefinedThing
    /\ nCalls = 0
    /\ res.statusCode = 500 /\ res.finished

\* C16: a failure that reaches the interceptor when the response is Closed
\* changes nothing of the response and logs no response entry and no
\* double-end warning: the only effect is the error entry of a 5xx.
C16_ClosedResponseIsLeftAlone ==
    [][ (Intercepted /\ res.finished)
          => /\ res' = res
             /\ \/ log' = log
                \/ log' = Append(log, LogEntry("error", "route", "", 0))
      ]_vars

\* C16 witness: a failure normalized to 500 was intercepted after the
\* response was Closed
C16_Witness ==
    /\ last.op = "catch" /\ last.pre
    /\ last.arg.name # "HTTPError"
    /\ res.finished
    /\ res.statusCode # 500

\* C17: a request whose handler fails once with a failure normalized to a
\* status >= 500 - it throws without having called the response, or it
\* throws what its one call on the response returned, as in
\* `throw res.error(err)` - gets exactly one error-level log entry.
C17_OneErrorEntryPerFailure ==
    (/\ last.op = "catch"
     /\ nCalls = 0 \/ (nCalls = 1 /\ last.arg.name = "HTTPError")
     /\ anythingToError(last.arg).status > 499)
    => Cardinality(ErrorEntries(log)) = 1

---------------------------------------------------------------------------
(* types.ts, body.ts: the request body accessor *)

AppJson   == <<"a", "p", "p", "l", "i", "c", "a", "t", "i", "o", "n", "/",
               "j", "s", "o", "n">>
FormUrl   == <<"a", "p", "p", "l", "i", "c", "a", "t", "i", "o", "n", "/",
               "x", "-", "w", "w", "w", "-", "f", "o", "r", "m", "-",
               "u", "r", "l", "e", "n", "c", "o", "d", "e", "d">>
TextSlash == <<"t", "e", "x", "t", "/">>
CharsetEq == <<"c", "h", "a", "r", "s", "e", "t", "=">>
InvalidFormat == <<"I", "n", "v", "a", "l", "i", "d", " ",
                   "f", "o", "r", "m", "a", "t">>

\* s.slice(0, n)
Slice(s, n) == SubSeq(s, 1, IF Len(s) < n THEN Len(s) ELSE n)

\* lit occurs in s at index i
OccursAt(s, i, lit) ==
    i + Len(lit) - 1 <= Len(s) /\ SubSeq(s, i, i + Len(lit) - 1) = lit

\* the longest run of characters other than ';' of s from index j: [^;]+
RECURSIVE NotSemicolon(_, _)
NotSemicolon(s, j) ==
    IF j > Len(s) \/ s[j] = ";" THEN <<>>
    ELSE <<s[j]>> \o NotSemicolon(s, j + 1)

\* contentType.match(/charset=([^;]+)/)?.[1]: the leftmost match from i on
RECURSIVE MatchCharset(_, _)
MatchCharset(s, i) ==
    IF i > Len(s) THEN Undefined
    ELSE IF OccursAt(s, i, CharsetEq) /\ NotSemicolon(s, i + Len(CharsetEq)) # <<>>
    THEN NotSemicolon(s, i + Len(CharsetEq))
    ELSE MatchCharset(s, i + 1)

DataType(t, charset) == [type |-> t, charset |-> charset]

\* charset ?? dflt
CharsetOr(charset, dflt) == IF charset = Undefined THEN dflt ELSE charset

getDataTypeFromContentType(contentType) ==
    IF Slice(contentType, 16) = AppJson
    THEN DataType("json", CharsetOr(MatchCharset(contentType, 1),
                                    <<"u", "t", "f", "-", "8">>))
    ELSE IF Slice(contentType, 33) = FormUrl
    THEN DataType("text", CharsetOr(MatchCharset(contentType, 1),
                                    <<"a", "s", "c", "i", "i">>))
    ELSE IF Slice(contentType, 5) = TextSlash
            \/ MatchCharset(contentType, 1) # Undefined
    THEN DataType("text", MatchCharset(contentType, 1))
    ELSE DataType(Undefined, Undefined)

\* the value of a decimal digit character, -1 for any other character
DigitValue(c) ==
    CASE c = "0" -> 0 [] c = "1" -> 1 [] c = "2" -> 2 [] c = "3" -> 3
      [] c = "4" -> 4 [] c = "5" -> 5 [] c = "6" -> 6 [] c = "7" -> 7
      [] c = "8" -> 8 [] c = "9" -> 9 [] OTHER -> -1

\* JSON.parse accepts the text (of the texts of the model: an unsigned
\* integer without leading zero, or the empty object)
ValidJSON(text) ==
    \/ text = <<"{", "}">>
    \/ /\ text # <<>>
       /\ \A i \in 1..Len(text) : DigitValue(text[i]) >= 0
       /\ Len(text) > 1 => text[1] # "0"

RECURSIVE ParseInt(_)
ParseInt(text) ==
    IF text = <<>> THEN 0
    ELSE 10 * ParseInt(SubSeq(text, 1, Len(text) - 1))
            + DigitValue(text[Len(text)])

\* JSON.parse(text) of a valid text
JSONParse(text) ==
    IF text = <<"{", "}">> THEN Obj(text) ELSE Num(ParseInt(text))

\* new RequestBody(contentType, res, reqBody); used: the transport body was
\* read already
RequestBody(contentType, data, used) ==
    [type |-> getDataTypeFromContentType(contentType).type,
     charset |-> getDataTypeFromContentType(contentType).charset,
     data |-> data, used |-> used]

\* what an accessor leaves behind: the effect on the response, the value it
\* resolved to and whether it read the transport body
Accessed(e, value, read) == [e |-> e, value |-> value, read |-> read]

\* reqBody.json() / reqBody.text() / reqBody.arrayBuffer() of an unread body
ReadAs(t, data) ==
    IF t = "json" THEN JSONParse(data)
    ELSE IF t = "text" THEN Str(data)
    ELSE Buf(TextEncode(data))

\* the read rejects: the body was consumed before, or it is no JSON text
ReadFails(rb) == rb.used \/ (rb.type = "json" /\ ~ValidJSON(rb.data))

\* mutant: no catch around the read, the parse exception escapes
parse_Uncaught(e, rb) ==
    IF ReadFails(rb)
    THEN Accessed([e EXCEPT !.threw = Thrown("SyntaxError", 0, NoValue, "")],
                  NoValue, TRUE)
    ELSE Accessed(e, ReadAs(rb.type, rb.data), TRUE)

\* RequestBody.parse: a failing read is answered with badRequest(true,
\* 'Invalid format')
parse(e, rb) ==
    IF ReadFails(rb)
    THEN Accessed(assert(e, HelperStatus("badRequest"), TRUE,
                         Str(InvalidFormat), <<>>), NoValue, TRUE)
    ELSE Accessed(e, ReadAs(rb.type, rb.data), TRUE)

\* parse() unless the badType assertion before it threw
parseUnlessThrown(e, rb) ==
    IF Throws(e) THEN Accessed(e, NoValue, FALSE) ELSE parse(e, rb)

\* RequestBody.raw
raw(e, rb) == parse(e, rb)

\* RequestBody.text
text(e, rb) ==
    parseUnlessThrown(
        assert(e, HelperStatus("badType"),
               rb.charset = Undefined /\ rb.type # "text", NoValue, <<>>),
        rb)

\* mutant: the kind of the body is not checked
json_Unchecked(e, rb) == parse(e, rb)

\* RequestBody.json
json(e, rb) ==
    parseUnlessThrown(
        assert(e, HelperStatus("badType"), rb.type # "json", NoValue, <<>>),
        rb)

---------------------------------------------------------------------------
(* SpecBody: a handler reads the request body through the accessor.        *)

\* accessor calls a handler makes on one request
MaxBodyCalls == 2

CT_Json        == AppJson
CT_JsonCharset == AppJson \o <<";">> \o CharsetEq \o <<"x">>
CT_Css         == TextSlash \o <<"c", "s", "s">>
CT_Form        == FormUrl
CT_Image       == <<"i", "m", "a", "g", "e", "/", "x">>
CT_ImageCharset == CT_Image \o <<";">> \o CharsetEq \o <<"x">>
\* headers.get('content-type') ?? ''
CT_None        == <<>>

ContentTypes == {CT_Json, CT_JsonCharset, CT_Css, CT_Form, CT_Image,
                 CT_ImageCharset, CT_None}
Bodies == {<<"1", "2", "3", "4", "5">>, <<"{">>, <<>>}

RequestWithBody(method, path, headers, contentType, data) ==
    [method |-> method, path |-> path, headers |-> headers,
     contentType |-> contentType, data |-> data, bodyUsed |-> FALSE]

\* the state in which trigger() calls the fallback handler for POST /a
InitBody ==
    /\ routes = {}
    /\ static = <<>>
    /\ dynamic = <<>>
    /\ fallbackRoute = "h1"
    /\ registered = <<>>
    /\ routerRoutes = <<>>
    /\ corsConf = NoValue
    /\ \E ct \in ContentTypes, data \in Bodies :
          req = RequestWithBody("POST", P_a, Headers(Undefined, <<>>), ct, data)
    /\ invoked = trigger("POST", P_a, Headers(Undefined, <<>>)).invoked
    /\ params = trigger("POST", P_a, Headers(Undefined, <<>>)).params
    /\ res = trigger("POST", P_a, Headers(Undefined, <<>>)).e.res
    /\ log = trigger("POST", P_a, Headers(Undefined, <<>>)).e.log
    /\ last = Call("trigger", NoThrow, <<>>, FALSE)
    /\ nCalls = 0
    /\ Constructed

\* input.body of the handler
TheBody == RequestBody(req.contentType, req.data, req.bodyUsed)

\* what the handler got from an accessor
Got(a) == [k |-> "body", value |-> a.value, read |-> a.read]

\* the state an accessor call leaves behind
AccessedBody(op, a) ==
    /\ res' = a.e.res
    /\ log' = a.e.log
    /\ req' = [req EXCEPT !.bodyUsed = @ \/ a.read]
    /\ last' = CallWith(op, a.e.threw, <<>>, res.finished, Got(a))
    /\ nCalls' = nCalls + 1
    /\ UNCHANGED <<registry, routerRoutes, corsConf, lifecycle, exchanges, invoked, params>>

Reading == nCalls < MaxBodyCalls /\ last.op # "catch"

BodyRaw  == Reading /\ AccessedBody("raw", raw(Effect(res, log), TheBody))
BodyText == Reading /\ AccessedBody("text", text(Effect(res, log), TheBody))
BodyJson == Reading /\ AccessedBody("json", json(Effect(res, log), TheBody))

BodyEnd ==
    /\ Reading
    /\ Applied("end", end(Effect(res, log), NoValue), NoValue)

\* the handler writes a chunk before it reads the body
BodyWrite ==
    /\ Reading
    /\ Applied("write", write(Effect(res, log), Str(<<"a">>)), Str(<<"a">>))

NextBody == BodyRaw \/ BodyText \/ BodyJson \/ BodyEnd \/ BodyWrite \/ Catch

SpecBody == InitBody /\ [][NextBody]_vars

\* the step is a call of the named accessor
AccessorCall(op) == last'.op = op /\ nCalls' = nCalls + 1

\* the Content-Type carries an explicit charset
ExplicitCharset(contentType) == MatchCharset(contentType, 1) # Undefined

\* C18: json() on a request whose Content-Type does not resolve to kind
\* json raises without reading the transport body, and finalizes a response
\* that is not Closed with status 415; on kind json with a valid unread body
\* it returns the parsed value.
C18_JsonChecksKind ==
    [][ AccessorCall("json")
          => IF getDataTypeFromContentType(req.contentType).type # "json"
             THEN /\ last'.threw # NoThrow
                  /\ ~last'.arg.read
                  /\ req'.bodyUsed = req.bodyUsed
                  /\ ~res.finished
                       => /\ res'.statusCode = 415
                          /\ res'.finished
                          /\ last'.threw.name = "HTTPError"
                          /\ last'.threw.status = 415
             ELSE (ValidJSON(req.data) /\ ~req.bodyUsed)
                    => /\ last'.threw = NoThrow
                       /\ last'.arg.value = JSONParse(req.data)
                       /\ res' = res
      ]_vars

\* C18 witness: json() of the body 12345 declared application/json gave
\* the number 12345
C18_Witness ==
    /\ last.op = "json"
    /\ req.contentType = CT_Json
    /\ last.threw = NoThrow
    /\ last.arg.value = Num(12345)

\* C19: text() raises 415 unless the Content-Type resolves to kind text or
\* carries an explicit charset, and what it returns is a string.
C19_TextReturnsString ==
    (last.op = "text" /\ nCalls = 1)
    => IF \/ getDataTypeFromContentType(req.contentType).type = "text"
          \/ ExplicitCharset(req.contentType)
       THEN last.threw = NoThrow => last.arg.value.k = "string"
       ELSE last.threw.name = "HTTPError" /\ last.threw.status = 415

\* C20: raw() returns the bytes of the request body for every declared
\* Content-Type and never finalizes the response with an error.
C20_RawReturnsBytes ==
    (last.op = "raw" /\ nCalls = 1)
    => /\ last.threw = NoThrow
       /\ last.arg.value = Buf(TextEncode(req.data))
       /\ ~res.finished

\* the step is an accessor call whose read of the transport body failed
FailedRead ==
    /\ nCalls' = nCalls + 1
    /\ last'.op \in {"raw", "text", "json"}
    /\ last'.arg.read
    /\ ReadFails(TheBody)

\* the failed read became the 400 "Invalid format" response, and the
\* accessor raised the HTTPError of it
ConvertedTo400 ==
    /\ res'.statusCode = 400
    /\ res'.finished
    /\ Flatten(StreamBytes(res')) = TextEncode(InvalidFormat)
    /\ last'.threw.name = "HTTPError"
    /\ last'.threw.status = 400

\* the step is the interceptor receiving what a failed read raised
FailedReadCaught ==
    /\ last'.op = "catch"
    /\ last.op \in {"raw", "text", "json"}
    /\ last.arg.read
    /\ last.arg.value = NoValue

\* C21 as stated: every failed read of the request body is converted to a
\* response with status 400 and body "Invalid format".
C21_Original ==
    [][ FailedRead => ConvertedTo400 ]_vars

\* C21: a failed read of the request body (malformed JSON, body already
\* consumed) on an Open response is converted to a response with status 400
\* and body "Invalid format"; what the accessor raises is the HTTPError of
\* that response, never the parse exception; and whatever the phase of the
\* response, the interceptor that receives the raise leaves the response as
\* it is, with a status below 500.
C21_ParseFailureIs400 ==
    [][ /\ (FailedRead /\ Phase(res) = 0) => ConvertedTo400
        /\ FailedRead => last'.threw.name \in {"HTTPError", "TypeError"}
        /\ FailedReadCaught => (res' = res /\ res'.statusCode = 400)
      ]_vars

\* C21 witness: json() of the malformed body '{' on an Open response was
\* answered 400 and the raise went through the interceptor
C21_Witness ==
    /\ last.op = "catch"
    /\ last.arg.name = "HTTPError"
    /\ req.data = <<"{">>
    /\ req.contentType = CT_Json
    /\ nCalls = 1
    /\ res.statusCode = 400
    /\ Flatten(StreamBytes(res)) = TextEncode(InvalidFormat)

---------------------------------------------------------------------------
(* SpecCors: an app with a CORS configuration serves requests with and     *)
(* without an Origin header.                                               *)

\* values of the `origin` option
OriginOptions ==
    {NoValue,
     [k |-> "string", v |-> "*"],
     [k |-> "string", v |-> "http://a"],
     [k |-> "regexp", v |-> {"http://a"}],
     [k |-> "array", v |-> << [k |-> "string", v |-> "http://b"],
                              [k |-> "regexp", v |-> {"http://a"}] >>],
     [k |-> "boolean", v |-> TRUE],
     [k |-> "boolean", v |-> FALSE]}

MethodsOptions  == {NoValue, [k |-> "array", v |-> <<"GET", "POST">>]}
AllowedOptions  == {NoValue, [k |-> "words", v |-> <<"x-a">>]}
ExposedOptions  == {NoValue, [k |-> "words", v |-> <<"x-b">>]}
CredentialsOptions == {NoValue, [k |-> "boolean", v |-> TRUE]}
MaxAgeOptions   == {NoValue, [k |-> "number", v |-> "600"]}

CorsMethods  == {"GET", "OPTIONS"}
CorsPaths    == {P_a_b, P_a}
CorsOrigins  == {Undefined, "http://a", "http://b"}
RequestedHeaders == {<<>>, <<"x-c">>}

\* the routes of the app: GET /a/b and OPTIONS /a/b
CorsAppRoutes ==
    addEndpoint(addEndpoint(EmptyRegistry, "get", P_a_b, "h1", "addEndpoint").g,
                "options", P_a_b, "h2", "addEndpoint").g

\* the app after construction, with or without a fallback route, with or
\* without conf.cors
InitCors ==
    /\ routes = CorsAppRoutes.routes
    /\ static = CorsAppRoutes.static
    /\ dynamic = CorsAppRoutes.dynamic
    /\ registered = CorsAppRoutes.registered
    /\ fallbackRoute \in {Undefined, "h1"}
    /\ routerRoutes = <<>>
    /\ \/ corsConf = NoValue
       \/ \E o \in OriginOptions, m \in MethodsOptions, ah \in AllowedOptions,
             eh \in ExposedOptions, cr \in CredentialsOptions,
             ma \in MaxAgeOptions :
             corsConf = CorsOptions(o, m, ah, eh, cr, ma)
    /\ req = NoRequest
    /\ invoked = NotInvoked
    /\ params = <<>>
    /\ res = NewResponse
    /\ log = <<>>
    /\ last = Call("new", NoThrow, <<>>, FALSE)
    /\ nCalls = 0
    /\ Constructed

CorsTrigger ==
    \E m \in CorsMethods, p \in CorsPaths, o \in CorsOrigins,
       h \in RequestedHeaders :
        /\ req = NoRequest
        /\ req' = Request(m, p, Headers(o, h))
        /\ Triggered(trigger(m, p, Headers(o, h)))
        /\ UNCHANGED <<registry, routerRoutes, corsConf, lifecycle, exchanges>>

NextCors == CorsTrigger \/ Settle

SpecCors == InitCors /\ [][NextCors]_vars

\* CORS negotiation applies to the request: conf.cors is set and the request
\* carries an Origin header
Negotiated == corsConf.k # "undefined" /\ req.headers.origin # Undefined

\* what the dispatch of the request's (method, path) gives on a response
\* nothing has touched
PlainDispatch ==
    dispatch(Logged(Effect(NewResponse, <<>>), RequestEntry),
             matchRoute(req.method, req.path))

\* C22: without a CORS configuration, or without an Origin header on the
\* request, the response carries no header after the dispatch, and the
\* request is dispatched exactly as on an untouched Open response - an
\* OPTIONS request reaches its route, the fallback or the 404 like any other.
C22_NoCorsNoHeaders ==
    (last.op = "trigger" /\ ~Negotiated)
    => /\ DOMAIN res.headersObj = {}
       /\ res = PlainDispatch.e.res
       /\ log = PlainDispatch.e.log
       /\ invoked = PlainDispatch.invoked
       /\ MatchingStatic # {}
            => /\ invoked = Invoked(registered[First(MatchingStatic)].handler,
                                    "static")
               /\ Phase(res) = 0
       /\ (MatchingStatic = {} /\ fallbackRoute # Undefined)
            => (invoked = Invoked(fallbackRoute, "fallback") /\ Phase(res) = 0)
       /\ (MatchingStatic = {} /\ fallbackRoute = Undefined)
            => (invoked = NotInvoked /\ res.statusCode = 404)

\* C22 witness: an OPTIONS request without Origin header, on an app with a
\* CORS configuration, reached the OPTIONS route and the response is Open
\* without headers
C22_Witness ==
    /\ last.op = "trigger"
    /\ req.method = "OPTIONS"
    /\ corsConf.k # "undefined"
    /\ req.headers.origin = Undefined
    /\ invoked = Invoked("h2", "static")
    /\ Phase(res) = 0
    /\ DOMAIN res.headersObj = {}

\* the methods the configuration allows, as Access-Control-Allow-Methods
\* carries them
AllowedMethods ==
    IF corsConf.methods.k = "undefined" THEN DEFAULT_METHODS
    ELSE JoinedOrString(corsConf.methods)

\* C23: an OPTIONS request with an Origin header on an app with a CORS
\* configuration is finalized as 204 with Content-Length 0 and
\* Access-Control-Allow-Methods (the configured list, by default
\* GET,HEAD,PUT,PATCH,POST,DELETE), and for as long as the request lives no
\* handler - static, dynamic or fallback - is invoked for it.
C23_PreflightShortCircuits ==
    (req # NoRequest /\ Negotiated /\ req.method = "OPTIONS")
    => /\ res.statusCode = 204
       /\ res.finished
       /\ res.headersSent
       /\ get(res, "content-length") = <<"0">>
       /\ get(res, "access-control-allow-methods") = AllowedMethods
       /\ invoked = NotInvoked
       /\ last.threw = NoThrow

\* C23 witness: OPTIONS /a/b with an Origin header, for which an OPTIONS
\* route and a fallback exist, was answered 204 with the default methods
C23_Witness ==
    /\ last.op = "trigger"
    /\ Negotiated
    /\ req.method = "OPTIONS"
    /\ MatchingStatic # {}
    /\ fallbackRoute # Undefined
    /\ res.statusCode = 204
    /\ get(res, "access-control-allow-methods") = DEFAULT_METHODS
    /\ invoked = NotInvoked

\* the Vary header of the response lists the field name (in any letter case)
VaryLists(r, name) ==
    \E i \in 1..Len(VaryValues(get(r, "vary"))) :
        VaryValues(get(r, "vary"))[i] = <<LowerWord(name)>>

\* C24: with CORS configured and an Origin header present,
\* Access-Control-Allow-Origin is * when the origin option is absent or *;
\* the configured string, with Origin listed in Vary, when it is any other
\* string; otherwise the request's Origin if the allow-list accepts it and
\* the string "false" if not, with Origin listed in Vary in both cases.
C24_AllowOrigin ==
    (last.op = "trigger" /\ Negotiated)
    => IF corsConf.origin.k = "undefined"
          \/ corsConf.origin = [k |-> "string", v |-> "*"]
       THEN get(res, "access-control-allow-origin") = <<"*">>
       ELSE IF corsConf.origin.k = "string"
       THEN /\ get(res, "access-control-allow-origin") = <<corsConf.origin.v>>
            /\ VaryLists(res, "Origin")
       ELSE /\ get(res, "access-control-allow-origin")
                 = IF isOriginAllowed(req.headers.origin, corsConf.origin)
                   THEN <<req.headers.origin>> ELSE <<"false">>
            /\ VaryLists(res, "Origin")

---------------------------------------------------------------------------
(* SpecVary: setVaryHeader is applied to responses with and without a Vary *)
(* header.                                                                 *)

\* setVaryHeader calls on one response
MaxVaryCalls == 3

\* Vary headers a response starts with; <<>> is no Vary header
VaryHeaders ==
    {<<>>, <<"*">>, <<"Accept">>, <<"Origin">>, <<"Accept", ",", "Origin">>,
     <<"accept", ",", " ", "origin">>,
     <<"Access-Control-request-Headers", ",", " ", "Accept">>}

FieldNames == {"Origin", "origin", "Accept", "Access-Control-request-Headers",
               "*"}

\* a response whose Vary header is v
WithVary(v) ==
    IF v = <<>> THEN NewResponse
    ELSE [NewResponse EXCEPT !.headersObj = ("vary" :> v)]

InitVary ==
    /\ routes = {}
    /\ static = <<>>
    /\ dynamic = <<>>
    /\ fallbackRoute = Undefined
    /\ registered = <<>>
    /\ routerRoutes = <<>>
    /\ corsConf = EmptyCors
    /\ req = Request("GET", P_a, Headers("http://a", <<>>))
    /\ invoked = NotInvoked
    /\ params = <<>>
    /\ \E v \in VaryHeaders : res = WithVary(v)
    /\ log = <<>>
    /\ last = Call("new", NoThrow, <<>>, FALSE)
    /\ nCalls = 0
    /\ Constructed

SetVaryHeader ==
    \E nv \in FieldNames :
        /\ nCalls < MaxVaryCalls
        /\ Applied("setVaryHeader", setVaryHeader(Effect(res, log), nv), Str(nv))

NextVary == SetVaryHeader

SpecVary == InitVary /\ [][NextVary]_vars

\* the field names a Vary header value lists, letter case folded; a response
\* without the header lists none
HeaderFields(v) ==
    IF v = <<>> THEN <<>>
    ELSE [i \in 1..Len(SplitOn(v, ",", 1, <<>>)) |->
             LowerAll(Trim(SplitOn(v, ",", 1, <<>>)[i]))]

\* the list has the field name, in any letter case
Lists(fields, name) ==
    \E i \in 1..Len(fields) : fields[i] = <<LowerWord(name)>>

\* C25: adding a field name to a Vary list that is * changes nothing; adding
\* * makes the list *; adding a name the list has already (in any letter
\* case) leaves the list as it is; adding any other name appends it to the
\* list, so that on a response without Vary header the list is that one
\* name.
C25_VaryAccumulates ==
    [][ (last'.op = "setVaryHeader" /\ nCalls' = nCalls + 1)
          => IF get(res, "vary") = <<"*">>
             THEN get(res', "vary") = <<"*">>
             ELSE IF last'.arg.v = "*"
             THEN get(res', "vary") = <<"*">>
             ELSE IF Lists(HeaderFields(get(res, "vary")), last'.arg.v)
             THEN HeaderFields(get(res', "vary"))
                    = HeaderFields(get(res, "vary"))
             ELSE HeaderFields(get(res', "vary"))
                    = Append(HeaderFields(get(res, "vary")),
                             <<LowerWord(last'.arg.v)>>)
      ]_vars

---------------------------------------------------------------------------
(* app.ts: App.start, App.stop, retryShortly *)

\* a start() or stop() call: op, the state of the app when it was made
\* (during), the await its async body is at (pc), whether it went through
\* retryShortly (deferred), and how the promise handed to the caller
\* settled: settled, the value or error it settled with, and the state of
\* the app at that moment (at)
LifecycleCall(op, during) ==
    [op |-> op, during |-> during, pc |-> "entry", deferred |-> FALSE,
     settled |-> "pending", value |-> "", at |-> ""]

\* the promise of the call resolves with the value its async body returned;
\* through retryShortly's fn().then(done) that resolves the deferred call too
Resolved(c, value, at) ==
    [c EXCEPT !.pc = "done", !.settled = "resolved", !.value = value,
              !.at = at]

\* the async body threw: the promise of a direct call rejects; in
\* retryShortly, fn().then(done) has no rejection handler, so the promise
\* handed to the caller of a deferred call stays pending for good
Rejected(c, err, at) ==
    IF c.deferred
    THEN [c EXCEPT !.pc = "lost", !.value = err, !.at = at]
    ELSE [c EXCEPT !.pc = "done", !.settled = "rejected", !.value = err,
                   !.at = at]

\* retryShortly(fn): the call waits for the one-second timer
Deferred(c) == [c EXCEPT !.pc = "timer", !.deferred = TRUE]

\* what one step of start() or stop() leaves behind
Stepped(a, c) == [app |-> a, call |-> c]

\* mutant: start() does not look at the state
StartReturnsState_Never(st) == FALSE

\* start(): if(this.state in { running: 1, starting: 1 }) return this.state
StartReturnsState(st) == st \in {"running", "starting"}

\* mutant: start() does not wait for a shutdown in progress
StartRetries_Never(st) == FALSE

\* start(): if(this.state == 'stopping') return await retryShortly(...)
StartRetries(st) == st = "stopping"

\* mutant: stop() does not wait for a startup in progress
StopRetries_Never(st) == FALSE

\* stop(): if(this.state == 'starting') return await retryShortly(...)
StopRetries(st) == st = "starting"

\* mutant: stop() does not look at the state
StopReturnsState_Never(st) == FALSE

\* stop(): if(this.state in { stopping: 1, standby: 1 }) return this.state
StopReturnsState(st) == st \in {"stopping", "standby"}

\* start() up to its first await: the state checks, then state = 'starting'
\* and the call of the startup hook
start(a, c) ==
    IF StartReturnsState(a.state) THEN Stepped(a, Resolved(c, a.state, a.state))
    ELSE IF StartRetries(a.state) THEN Stepped(a, Deferred(c))
    ELSE Stepped([a EXCEPT !.state = "starting", !.startups = @ + 1],
                 [c EXCEPT !.pc = "startup"])

\* this._server?.close()
closeServer(a) ==
    [a EXCEPT !.server = IF @ = "listening" THEN "closed" ELSE @]

\* mutant: the connections are left open
closeConns_Skipped(a) == a

\* this._conns.map(a => a.close()): HttpConn.close() does nothing on a
\* connection that is closed already
closeConns(a) == [a EXCEPT !.conns = 0]

\* stop() up to its first await: the state checks, then state = 'stopping',
\* the listener and the connections are closed, and the zero timeout is awaited
stop(a, c, tick) ==
    IF StopReturnsState(a.state) THEN Stepped(a, Resolved(c, a.state, a.state))
    ELSE IF StopRetries(a.state) THEN Stepped(a, Deferred(c))
    ELSE Stepped(closeConns(closeServer([a EXCEPT !.state = "stopping"])),
                 [c EXCEPT !.pc = tick])

\* startServer(): the listener yields a connection, Deno.serveHttp(conn) is
\* pushed to _conns
accept(a) == [a EXCEPT !.conns = @ + 1, !.accepts = @ + 1]

\* startServer(), if conf.port is set
startServer(a) ==
    IF a.port THEN [a EXCEPT !.server = "listening", !.listens = @ + 1]
    ELSE a

\* mutant: start() resolves as soon as the startup hook was called
startupReturned_Early(a, c) ==
    Stepped([startServer(a) EXCEPT !.unmatched = "returned"],
            Resolved(c, "running", a.state))

\* start() after the startup hook returned: startServer, state = 'running'
startupReturned(a, c) ==
    Stepped([startServer(a) EXCEPT !.state = "running",
                                   !.unmatched = "returned"],
            Resolved(c, "running", "running"))

\* start() when the startup hook threw: state = 'stuck', then this.stop()
\* runs up to its first await
startupThrew(a, c) ==
    stop([a EXCEPT !.state = "stuck", !.unmatched = "threw"], c, "cleanupTick")

\* stop() with a listener that was closed before and whose close() throws:
\* the call made by start()'s catch block rejects, the rejection is dropped by
\* .catch(() => {}), and start() rethrows the hook's error
startupThrewCloseThrew(a, c) ==
    Stepped([a EXCEPT !.state = "stopping", !.unmatched = "threw"],
            Rejected(c, "startupError", "stopping"))

\* stop() after the zero timeout: the shutdown hook is called
timeoutPassed(a, c) ==
    Stepped([a EXCEPT !.shutdowns = @ + 1, !.unmatched = "none"],
            [c EXCEPT !.pc = IF @ = "tick" THEN "shutdown"
                             ELSE "cleanupShutdown"])

\* the finally block of stop(): state = 'standby'
finally(a) == [a EXCEPT !.state = "standby"]

\* stop() after the shutdown hook settled (threw: it threw). A stop() made by
\* start()'s catch block ends here, and start() rethrows the startup error.
shutdownSettled(a, c, threw) ==
    IF c.pc = "cleanupShutdown"
    THEN Stepped(finally(a), Rejected(c, "startupError", "standby"))
    ELSE IF threw
    THEN Stepped(finally(a), Rejected(c, "shutdownError", "standby"))
    ELSE Stepped(finally(a), Resolved(c, "standby", "standby"))

\* the timer of retryShortly fired: fn() runs start() or stop() again
timerFired(a, c) ==
    IF c.op = "start" THEN start(a, c) ELSE stop(a, c, "tick")

---------------------------------------------------------------------------
(* SpecLifecycle: start() and stop() are called on an app, at any moment,  *)
(* while earlier calls are at an await; the hooks return or throw.         *)

\* start()/stop() calls made on one app
MaxLifecycleCalls == 4

\* connections a client opens to the app
MaxConns == 2

InitLifecycle ==
    /\ InitCommon_NoApp
    /\ corsConf = NoValue
    /\ \E port \in BOOLEAN : app = StandbyApp(port)
    /\ calls = <<>>
    /\ exchanges = <<>>

\* the state a step of call i leaves behind
Continued(i, s) ==
    /\ app' = s.app
    /\ calls' = [calls EXCEPT ![i] = s.call]
    /\ UNCHANGED <<registry, routerRoutes, corsConf, request, last, nCalls,
                   exchanges>>

\* a new call was made
Called(s) ==
    /\ Len(calls) < MaxLifecycleCalls
    /\ app' = s.app
    /\ calls' = Append(calls, s.call)
    /\ UNCHANGED <<registry, routerRoutes, corsConf, request, last, nCalls,
                   exchanges>>

Start == Called(start(app, LifecycleCall("start", app.state)))

Stop == Called(stop(app, LifecycleCall("stop", app.state), "tick"))

TimerFires(i) ==
    /\ calls[i].pc = "timer"
    /\ Continued(i, timerFired(app, calls[i]))

StartupReturns(i) ==
    /\ calls[i].pc = "startup"
    /\ Continued(i, startupReturned(app, calls[i]))

StartupThrows(i) ==
    /\ calls[i].pc = "startup"
    /\ \/ Continued(i, startupThrew(app, calls[i]))
       \/ /\ app.server = "closed"
          /\ Continued(i, startupThrewCloseThrew(app, calls[i]))

TimeoutPasses(i) ==
    /\ calls[i].pc \in {"tick", "cleanupTick"}
    /\ Continued(i, timeoutPassed(app, calls[i]))

ShutdownReturns(i) ==
    /\ calls[i].pc \in {"shutdown", "cleanupShutdown"}
    /\ Continued(i, shutdownSettled(app, calls[i], FALSE))

ShutdownThrows(i) ==
    /\ calls[i].pc \in {"shutdown", "cleanupShutdown"}
    /\ Continued(i, shutdownSettled(app, calls[i], TRUE))

\* a client connects to the listening app
Connect ==
    /\ app.server = "listening"
    /\ app.accepts < MaxConns
    /\ app' = accept(app)
    /\ UNCHANGED <<registry, routerRoutes, corsConf, request, last, nCalls,
                   calls, exchanges>>

\* the steps in which no hook throws
NextHooksReturn ==
    \/ Start
    \/ Stop
    \/ Connect
    \/ \E i \in 1..Len(calls) : TimerFires(i)
    \/ \E i \in 1..Len(calls) : StartupReturns(i)
    \/ \E i \in 1..Len(calls) : TimeoutPasses(i)
    \/ \E i \in 1..Len(calls) : ShutdownReturns(i)

NextLifecycle ==
    \/ NextHooksReturn
    \/ \E i \in 1..Len(calls) : StartupThrows(i)
    \/ \E i \in 1..Len(calls) : ShutdownThrows(i)

SpecLifecycle == InitLifecycle /\ [][NextLifecycle]_vars

\* the hooks terminate without error, timers fire and awaited promises are
\* resumed
SpecLifecycleLive ==
    /\ InitLifecycle
    /\ [][NextHooksReturn]_vars
    /\ \A i \in 1..MaxLifecycleCalls :
          /\ WF_vars(i <= Len(calls) /\ TimerFires(i))
          /\ WF_vars(i <= Len(calls) /\ StartupReturns(i))
          /\ WF_vars(i <= Len(calls) /\ TimeoutPasses(i))
          /\ WF_vars(i <= Len(calls) /\ ShutdownReturns(i))

---------------------------------------------------------------------------
(* Claims about the lifecycle of the app *)

\* in this step call i runs start() or stop() from its first line: it is
\* made, or its retryShortly timer fired and it got past the state checks
Attempts(i, op) ==
    /\ calls'[i].op = op
    /\ IF i <= Len(calls)
       THEN calls[i].pc = "timer" /\ calls'[i] # calls[i]
       ELSE TRUE

\* in this step the promise of call i resolves
ResolvesNow(i) ==
    /\ calls'[i].settled = "resolved"
    /\ IF i <= Len(calls) THEN calls[i].settled = "pending" ELSE TRUE

\* a call other than i is awaiting one of the given points
OtherAt(cs, i, pcs) == \E j \in 1..Len(cs) : j # i /\ cs[j].pc \in pcs

StartingPcs == {"startup"}
StoppingPcs == {"tick", "shutdown", "cleanupTick", "cleanupShutdown"}

\* C26: start() on a running app returns 'running' and stop() on an app in
\* standby returns 'standby', each time they are called, and the call changes
\* nothing: no hook is invoked, no listener is opened or closed, the state
\* stays.
C26_NoOpInTargetState ==
    [][ \A i \in 1..Len(calls') :
          /\ (Attempts(i, "start") /\ app.state = "running")
               => /\ app' = app
                  /\ ResolvesNow(i)
                  /\ calls'[i].value = "running"
          /\ (Attempts(i, "stop") /\ app.state = "standby")
               => /\ app' = app
                  /\ ResolvesNow(i)
                  /\ calls'[i].value = "standby"
      ]_vars

\* C26 witness: after one startup with a listener, start() was called twice
\* more on the running app and both calls returned 'running'; the hook ran
\* once and one listener was opened
C26_Witness ==
    /\ Len(calls) >= 3
    /\ \A i \in 1..3 :
          /\ calls[i].op = "start"
          /\ calls[i].settled = "resolved"
          /\ calls[i].value = "running"
    /\ app.state = "running"
    /\ app.startups = 1
    /\ app.listens = 1

MadeDuring(i, op, st) ==
    i <= Len(calls) /\ calls[i].op = op /\ calls[i].during = st

\* call i resolved while the app was in one of the states
ResolvedAt(i, states) ==
    /\ i <= Len(calls)
    /\ calls[i].settled = "resolved"
    /\ calls[i].at \in states

\* no call of op made during the state has failed, and none passed the state
\* checks while a call was awaiting one of the points
DeferredWhile(op, st, pcs) ==
    \A i \in 1..Len(calls) :
        (calls[i].op = op /\ calls[i].during = st)
          => /\ calls[i].settled # "rejected"
             /\ calls[i].pc # "lost"
             /\ calls[i].pc \notin {"entry", "timer", "done"}
                  => ~OtherAt(calls, i, pcs)

C30_HookErrorRejects ==
    [][ /\ \A i \in 1..Len(calls') :
              (calls'[i].value \in {"startupError", "shutdownError"})
                => /\ calls'[i].settled = "rejected"
                   /\ calls'[i].at = "standby"
                   /\ calls'[i].value = IF calls'[i].op = "start"
                                        THEN "startupError"
                                        ELSE "shutdownError"
        /\ app'.state # "stuck"
        /\ \A i \in 1..Len(calls') :
              (Attempts(i, "start") /\ app.state = "standby")
                => app'.startups = app.startups + 1
      ]_vars

\* in this step a stop() gets past its state checks
StopBegins == app'.state = "stopping" /\ app.state # "stopping"

\* in this step the shutdown hook is invoked
ShutdownHookInvoked == app'.shutdowns = app.shutdowns + 1

\* in this step the startup hook is invoked
StartupHookInvoked == app'.startups = app.startups + 1

\* in this step a listener is opened
ListenerOpened == app'.listens = app.listens + 1

\* C31: the step in which stop() sets 'stopping' closes the listener and
\* every open connection at once; the shutdown hook is invoked in a later
\* step, with listener and connections closed; and a listener is opened only
\* in the step that resumes a start() whose startup hook returned, never
\* while the app is starting.
C31_CloseBeforeShutdownHook ==
    [][ /\ StopBegins
          => /\ app'.server # "listening"
             /\ app'.conns = 0
             /\ ~ShutdownHookInvoked
        /\ ShutdownHookInvoked
          => /\ app.state = "stopping"
             /\ app.server # "listening"
             /\ app.conns = 0
        /\ ListenerOpened
          => /\ ~StartupHookInvoked
             /\ \E i \in 1..Len(calls) :
                   /\ calls[i].pc = "startup"
                   /\ calls'[i].pc = "done"
                   /\ calls'[i].value = "running"
        /\ app'.state = "starting" => app'.server # "listening"
      ]_vars

\* C31 witness: an app that listened and had two open connections is inside
\* its shutdown hook, with the listener and both connections closed
C31_Witness ==
    /\ app.state = "stopping"
    /\ app.shutdowns = 1
    /\ app.listens = 1
    /\ app.accepts = 2
    /\ app.conns = 0
    /\ app.server = "closed"
    /\ \E i \in 1..Len(calls) : calls[i].pc = "shutdown"

---------------------------------------------------------------------------
(* Claims about the log entries of a request, under SpecCors *)

\* the 'request' entries logged at debug level for the request
RequestEntries(l) ==
    {i \in 1..Len(l) : l[i].type = "request" /\ l[i].fn = "debug"}

\* C32: for every request handed to API.trigger exactly one debug-level
\* 'request' entry is logged, whether the request reaches a route, the
\* fallback, the 404 or is answered by the CORS preflight.
C32_OneRequestEntry ==
    req # NoRequest => Cardinality(RequestEntries(log)) = 1

---------------------------------------------------------------------------
(* app.ts, api.ts: requests in flight. JavaScript runs one piece of code    *)
(* at a time: a handler runs from its call, or from the await it resumed    *)
(* at, to its next await or its end, and promise callbacks such as          *)
(* res.sent.then(...) run in between.                                       *)

NotCommitted == [k |-> "none", headers |-> <<>>]
NotResponded == [k |-> "none", status |-> 0, headers |-> <<>>]

\* a request API.trigger was called for: its response and log, where its
\* handler is (running, awaiting, settled), whether trigger() has returned
\* the response to its caller, the headers at the moment of the commit
\* (history) and what respondWith() was called with
Exchange(t) ==
    [res       |-> t.e.res,
     log       |-> t.e.log,
     handler   |-> IF t.invoked = NotInvoked THEN "settled" ELSE "running",
     returned  |-> t.invoked = NotInvoked,
     committed |-> NotCommitted,
     responded |-> NotResponded,
     steps     |-> 0]

\* a call the handler made on its response
handlerCalled(x, e) ==
    [x EXCEPT !.res = e.res,
              !.log = e.log,
              !.steps = @ + 1,
              !.committed = IF ~x.res.headersSent /\ e.res.headersSent
                            THEN [k |-> "headers", headers |-> x.res.headersObj]
                            ELSE @]

\* mutant: trigger() awaits the handler before it returns
TriggerReturns_WhenSettled(handler) == handler = "settled"

\* trigger(): the async function wrapped around the handler is called and not
\* awaited, so `return res` is reached when the handler reaches its first
\* await (or its end)
TriggerReturns(handler) == TRUE

\* the handler reached an await or its end
handlerLeft(x, handler) ==
    [x EXCEPT !.handler = handler,
              !.returned = @ \/ TriggerReturns(handler)]

\* startServer(): res.sent.then(() => reqEvent.respondWith(new Response(
\* stream, { status: res.statusCode, headers: res.headersObj }))); App.trigger
\* reads the same two fields after `await res.sent`
respondWith(x) ==
    [x EXCEPT !.responded = [k |-> "response", status |-> x.res.statusCode,
                             headers |-> x.res.headersObj]]

---------------------------------------------------------------------------
(* SpecServe: requests reach an app whose fallback handler works on the     *)
(* response in steps, awaiting in between, or never comes back.             *)

\* requests in flight
MaxExchanges == 2

\* calls a handler makes on its response
MaxHandlerSteps == 3

LateHeader == "x-late"

InitServe ==
    /\ routes = {}
    /\ static = <<>>
    /\ dynamic = <<>>
    /\ fallbackRoute = "h1"
    /\ registered = <<>>
    /\ routerRoutes = <<>>
    /\ corsConf = NoValue
    /\ req = NoRequest
    /\ invoked = NotInvoked
    /\ params = <<>>
    /\ res = NewResponse
    /\ log = <<>>
    /\ last = Call("new", NoThrow, <<>>, FALSE)
    /\ nCalls = 0
    /\ Constructed

\* no handler is running: the event loop takes the next callback
Idle == \A i \in 1..Len(exchanges) : exchanges[i].handler # "running"

\* the listener loop (or the caller of App.trigger) has the response of
\* every request it dispatched and can dispatch the next one
LoopFree == \A i \in 1..Len(exchanges) : exchanges[i].returned

ExchangeStep(i, x) ==
    /\ exchanges' = [exchanges EXCEPT ![i] = x]
    /\ UNCHANGED <<registry, routerRoutes, corsConf, lifecycle, request, last,
                   nCalls>>

\* a request event: API.trigger is called, and calls the handler
Serve ==
    \E m \in {"GET", "POST"} :
        /\ Len(exchanges) < MaxExchanges
        /\ Idle
        /\ LoopFree
        /\ exchanges' = Append(exchanges,
                               Exchange(trigger(m, P_a, Headers(Undefined, <<>>))))
        /\ UNCHANGED <<registry, routerRoutes, corsConf, lifecycle, request,
                       last, nCalls>>

InHandler(i) ==
    /\ exchanges[i].handler = "running"
    /\ exchanges[i].steps < MaxHandlerSteps

HandlerWrites(i) ==
    /\ InHandler(i)
    /\ ExchangeStep(i, handlerCalled(exchanges[i],
                          write(Effect(exchanges[i].res, exchanges[i].log),
                                Str(<<"a">>))))

HandlerEnds(i) ==
    /\ InHandler(i)
    /\ ExchangeStep(i, handlerCalled(exchanges[i],
                          end(Effect(exchanges[i].res, exchanges[i].log),
                              NoValue)))

HandlerSets(i) ==
    /\ InHandler(i)
    /\ ExchangeStep(i, handlerCalled(exchanges[i],
                          set(Effect(exchanges[i].res, exchanges[i].log),
                              LateHeader, <<"1">>)))

HandlerAwaits(i) ==
    /\ exchanges[i].handler = "running"
    /\ ExchangeStep(i, handlerLeft(exchanges[i], "awaiting"))

HandlerReturns(i) ==
    /\ exchanges[i].handler = "running"
    /\ ExchangeStep(i, handlerLeft(exchanges[i], "settled"))

HandlerResumes(i) ==
    /\ exchanges[i].handler = "awaiting"
    /\ Idle
    /\ ExchangeStep(i, [exchanges[i] EXCEPT !.handler = "running"])

\* the callback of res.sent.then runs
Responds(i) ==
    /\ Idle
    /\ exchanges[i].returned
    /\ exchanges[i].res.resolved > 0
    /\ exchanges[i].responded = NotResponded
    /\ ExchangeStep(i, respondWith(exchanges[i]))

NextServe ==
    \/ Serve
    \/ \E i \in 1..Len(exchanges) : HandlerWrites(i)
    \/ \E i \in 1..Len(exchanges) : HandlerEnds(i)
    \/ \E i \in 1..Len(exchanges) : HandlerSets(i)
    \/ \E i \in 1..Len(exchanges) : HandlerAwaits(i)
    \/ \E i \in 1..Len(exchanges) : HandlerReturns(i)
    \/ \E i \in 1..Len(exchanges) : HandlerResumes(i)
    \/ \E i \in 1..Len(exchanges) : Responds(i)

SpecServe == InitServe /\ [][NextServe]_vars

\* C33: the headers the transport (or App.trigger) is given for a response
\* are the headers the response had when it was committed: a header set
\* after the first write or end does not reach the client.
C33_HeadersFixedAtCommit ==
    \A i \in 1..Len(exchanges) :
        exchanges[i].responded # NotResponded
          => exchanges[i].responded.headers = exchanges[i].committed.headers

---------------------------------------------------------------------------
(* SpecMatch: an app with one dynamic GET route serves request paths of one *)
(* or two segments.                                                        *)

P_ab_y == <<"/", "a", ".", "b", "/", ":", "y">>
P_x_ab == <<"/", ":", "x", "/", "a", ".", "b">>

MatchPatterns == {P_a_y, P_x_y, P_ab_y, P_x_ab}

MatchSegs == {<<"a">>, <<"b">>, <<"a", ".", "b">>, <<"a", "x", "b">>,
              <<"a", "-", "b">>, <<>>}

\* the path made of the segments
PathOf(segs) == <<"/">> \o Join(segs, <<"/">>)

MatchPaths ==
    {PathOf(<<s1>>) : s1 \in MatchSegs}
      \cup {PathOf(<<s1, s2>>) : s1 \in MatchSegs, s2 \in MatchSegs}

\* new App({ routes: [ get(pattern, h1) ] })
InitMatch ==
    /\ \E pattern \in MatchPatterns :
          /\ routes = addEndpoint(EmptyRegistry, "get", pattern, "h1",
                                  "addEndpoint").g.routes
          /\ static = addEndpoint(EmptyRegistry, "get", pattern, "h1",
                                  "addEndpoint").g.static
          /\ dynamic = addEndpoint(EmptyRegistry, "get", pattern, "h1",
                                   "addEndpoint").g.dynamic
          /\ registered = addEndpoint(EmptyRegistry, "get", pattern, "h1",
                                      "addEndpoint").g.registered
    /\ fallbackRoute = Undefined
    /\ routerRoutes = <<>>
    /\ corsConf = NoValue
    /\ req = NoRequest
    /\ invoked = NotInvoked
    /\ params = <<>>
    /\ res = NewResponse
    /\ log = <<>>
    /\ last = Call("new", NoThrow, <<>>, FALSE)
    /\ nCalls = 0
    /\ Constructed

MatchTrigger ==
    \E p \in MatchPaths :
        /\ req = NoRequest
        /\ req' = Request("GET", p, Headers(Undefined, <<>>))
        /\ Triggered(trigger("GET", p, Headers(Undefined, <<>>)))
        /\ UNCHANGED <<registry, routerRoutes, corsConf, lifecycle, exchanges>>

NextMatch == MatchTrigger \/ Settle

SpecMatch == InitMatch /\ [][NextMatch]_vars

\* the segments of a path or pattern: what follows each "/"
Segments(path) == Tail(Split(path))

IsParamSeg(seg) == Len(seg) > 0 /\ seg[1] = ":"

\* the segment is one or more characters of [\w\d\-\._~]
ParamValue(seg) ==
    Len(seg) > 0 /\ \A k \in 1..Len(seg) : seg[k] \in ParamChars

\* the pattern and the path have the same number of segments, literal
\* segments are equal and `:name` segments stand for a parameter value
SegmentwiseMatch(pattern, path) ==
    /\ Len(Segments(pattern)) = Len(Segments(path))
    /\ \A k \in 1..Len(Segments(pattern)) :
          k <= Len(Segments(path))
            => IF IsParamSeg(Segments(pattern)[k])
               THEN ParamValue(Segments(path)[k])
               ELSE Segments(pattern)[k] = Segments(path)[k]

\* C35: a request path reaches the handler of a dynamic route only if it
\* has as many segments as the pattern, equals it in every literal segment
\* and has one or more characters of [\w\d\-\._~] in every `:name` segment.
C35_DynamicMatchIsSegmentwise ==
    (req # NoRequest /\ invoked.kind = "dynamic")
    => SegmentwiseMatch(registered[1].path, req.path)

---------------------------------------------------------------------------
(* Claims about failures and the status of a response, under SpecErrors *)

\* C36: once a response is Closed, no later call on it - status(), error(),
\* an assertion helper - and no interception of a failure changes its
\* status code.
C36_StatusFixedOnceClosed ==
    [][ res.finished => res'.statusCode = res.statusCode ]_vars

\* C38: whenever a failure of the handler was intercepted - with the
\* response Open, Committed or Closed at that moment - the response is Closed
\* and its commit signal has fired, once.
C38_FailureClosesResponse ==
    last.op = "catch"
    => /\ res.finished
       /\ res.headersSent
       /\ res.resolved = 1

\* C38 witness: the handler wrote a chunk and then threw a plain Error; the
\* interceptor closed the Committed response as a 500
C38_Witness ==
    /\ last.op = "catch"
    /\ ~last.pre
    /\ last.arg = ErrorThing
    /\ Len(res.stream.chunks) = 1
    /\ res.statusCode = 500
    /\ res.finished
    /\ res.resolved = 1

---------------------------------------------------------------------------
(* Claims about the end of a request, under SpecRoutes *)

\* C39: when the async body of trigger() has run to its end - the handler
\* returned, or no handler was called - the commit signal of the response
\* has fired, so that `await res.sent` in App.trigger and res.sent.then in
\* the listener loop are resumed.
C39_SettledHandlerCommits ==
    [][ last'.op = "settle" => (res.headersSent /\ res.resolved > 0) ]_vars

---------------------------------------------------------------------------
(* The lifecycle with hooks that terminate, by returning or by throwing *)

\* a hook that was called terminates, timers fire and awaited promises are
\* resumed
SpecLifecycleFair ==
    /\ InitLifecycle
    /\ [][NextLifecycle]_vars
    /\ \A i \in 1..MaxLifecycleCalls :
          /\ WF_vars(i <= Len(calls) /\ TimerFires(i))
          /\ WF_vars(i <= Len(calls) /\ (StartupReturns(i) \/ StartupThrows(i)))
          /\ WF_vars(i <= Len(calls) /\ TimeoutPasses(i))
          /\ WF_vars(i <= Len(calls)
                       /\ (ShutdownReturns(i) \/ ShutdownThrows(i)))

\* the promise of call i has settled
Settled(i) == i <= Len(calls) /\ calls[i].settled # "pending"

\* C37: the promise of every start() and stop() call eventually resolves or
\* rejects, deferred calls whose retried attempt fails included.
C37_EveryCallSettles ==
    \A i \in 1..MaxLifecycleCalls : (i <= Len(calls)) ~> Settled(i)

---------------------------------------------------------------------------
(* Claims about the hooks, under SpecLifecycle *)

====
